---- MODULE Spec2Model ----
(***************************************************************************)
(* Doctor verification backend: the field-reconciliation engine of         *)
(* routers/doctor_router.py (similarity primitives, candidate selector,    *)
(* seven field verifiers, analyze_verification) and the verify_doctor      *)
(* handler with its report store.                                          *)
(*                                                                         *)
(* Python values are tagged records [t |-> <type>, v |-> <payload>]; a     *)
(* Python str is a sequence of one-character strings, so that lower(),     *)
(* split(), strip() and the substring test are computed, not assumed.      *)
(* A float that the code obtains as len(x)/len(y) is the exact ratio       *)
(* <<numerator, denominator>>; comparisons cross-multiply.                 *)
(***************************************************************************)
EXTENDS Integers, Sequences, FiniteSets, TLC

VARIABLES
    name1, name2,        \* arguments of a similarity call
    sim_fn, sim_ret,     \* which primitive was called, and what it returned
    request,             \* the claimed identity handed to analyze_verification
    scraped_data,        \* the evidence bag
    best_provider,       \* what get_best_matching_provider returned
    scores,              \* the selector's per-candidate name, specialty and combined scores
    verification_result, \* the seven field outcomes
    an_pc,               \* position of the analyze_verification harness
    now,                 \* the wall clock, in seconds
    hash_seed,           \* hash() of each name under the interpreter's hash seed
    doctor_reports,      \* the rows of the doctor_reports table
    handler,             \* each verify_doctor call: its position, locals and response
    active_connections,  \* dependencies.active_connections: connection id -> details
    generators,          \* each request's get_db generator: position, connection_id, db
    stale_connections    \* what check_stale_connections last logged

vars == <<name1, name2, sim_fn, sim_ret,
          request, scraped_data, best_provider, scores, verification_result, an_pc,
          now, hash_seed, doctor_reports, handler,
          active_connections, generators, stale_connections>>

simVars == <<name1, name2, sim_fn, sim_ret>>
anVars == <<request, scraped_data, best_provider, scores, verification_result, an_pc>>
svcVars == <<now, hash_seed, doctor_reports, handler>>
dbVars == <<active_connections, generators, stale_connections>>

\* no request has entered get_db
DbIdle ==
    /\ active_connections = <<>>
    /\ generators = <<>>
    /\ stale_connections = {}

(***************************************************************************)
(* Python values                                                           *)
(***************************************************************************)
None == [t |-> "none"]
Str(s) == [t |-> "str", v |-> s]
Bool(b) == [t |-> "bool", v |-> b]
List(l) == [t |-> "list", v |-> l]
Dict(r) == [t |-> "dict", v |-> r]
\* a str the code only passes along and compares for equality (a provenance
\* label, a canonical network name): distinct atoms are distinct strings
Atom(a) == [t |-> "atom", v |-> a]
PyInt(n) == [t |-> "int", v |-> n]
EmptyStr == Str(<<>>)
EmptyList == List(<<>>)
EmptyDict == Dict(<<>>)

IsNone(x) == x.t = "none"
IsStr(x) == x.t = "str"
IsList(x) == x.t = "list"
IsDict(x) == x.t = "dict"

\* bool(x): None, "", [], {} and False are falsy
Truthy(x) ==
    CASE x.t = "none" -> FALSE
      [] x.t = "bool" -> x.v
      [] x.t = "dict" -> DOMAIN x.v # {}
      [] x.t = "atom" -> x.v # ""
      [] x.t = "int" -> x.v # 0
      [] OTHER -> x.v # <<>>

\* x.lower(), x.strip(), x.split() raise AttributeError unless x is a str
LowerRaises(x) == ~IsStr(x)

\* d.get(k, default) on a dict d
Get(d, k, default) == IF k \in DOMAIN d.v THEN d.v[k] ELSE default

(***************************************************************************)
(* str methods, on sequences of characters                                 *)
(***************************************************************************)
UpperLetters == <<"A","B","C","D","E","F","G","H","I","J","K","L","M",
                  "N","O","P","Q","R","S","T","U","V","W","X","Y","Z">>
LowerLetters == <<"a","b","c","d","e","f","g","h","i","j","k","l","m",
                  "n","o","p","q","r","s","t","u","v","w","x","y","z">>

ToLower == [c \in {UpperLetters[i] : i \in 1..26} |->
              LowerLetters[CHOOSE i \in 1..26 : UpperLetters[i] = c]]
ToUpper == [c \in {LowerLetters[i] : i \in 1..26} |->
              UpperLetters[CHOOSE i \in 1..26 : LowerLetters[i] = c]]

Whitespace == {" ", "\t", "\n"}

\* s.lower()
Lower(s) == [i \in 1..Len(s) |-> IF s[i] \in DOMAIN ToLower THEN ToLower[s[i]] ELSE s[i]]
\* an upper() that leaves the letters as they are
Upper_KeepsCase(s) == s

\* s.upper()
Upper(s) == [i \in 1..Len(s) |-> IF s[i] \in DOMAIN ToUpper THEN ToUpper[s[i]] ELSE s[i]]

\* s.replace(c, '') for a single character c
RECURSIVE RemoveChar(_, _)
RemoveChar(s, c) ==
    IF s = <<>> THEN <<>>
    ELSE IF Head(s) = c THEN RemoveChar(Tail(s), c)
    ELSE <<Head(s)>> \o RemoveChar(Tail(s), c)

\* s.strip()
Strip(s) ==
    LET keep == {i \in 1..Len(s) : s[i] \notin Whitespace}
    IN IF keep = {} THEN <<>>
       ELSE LET lo == CHOOSE i \in keep : \A j \in keep : i <= j
                hi == CHOOSE i \in keep : \A j \in keep : j <= i
            IN SubSeq(s, lo, hi)

\* set(s.split()): the maximal runs of non-whitespace characters
Words(s) ==
    {SubSeq(s, i, j) : <<i, j>> \in
        {p \in (1..Len(s)) \X (1..Len(s)) :
            /\ p[1] <= p[2]
            /\ \A k \in p[1]..p[2] : s[k] \notin Whitespace
            /\ (p[1] = 1 \/ s[p[1] - 1] \in Whitespace)
            /\ (p[2] = Len(s) \/ s[p[2] + 1] \in Whitespace)}}

\* needle in hay
Contains(hay, needle) ==
    \E i \in 0..(Len(hay) - Len(needle)) : SubSeq(hay, i + 1, i + Len(needle)) = needle

(***************************************************************************)
(* Ratios standing for the floats the code computes                        *)
(***************************************************************************)
Ratio(n, d) == <<n, d>>
Zero == Ratio(0, 1)
RatEq(r, n, d) == r[1] * d = n * r[2]
RatGE(r, n, d) == r[1] * d >= n * r[2]
RatGT(r, q) == r[1] * q[2] > q[1] * r[2]

(***************************************************************************)
(* Similarity primitives                                                   *)
(***************************************************************************)
\* Jaccard similarity of two token sets, 0.0 when either is empty
Jaccard(words1, words2) ==
    IF words1 = {} \/ words2 = {} THEN Zero
    ELSE Ratio(Cardinality(words1 \cap words2), Cardinality(words1 \cup words2))

calculate_name_similarity_IdenticalShortcut(n1, n2) ==
    IF ~Truthy(n1) \/ ~Truthy(n2) THEN Zero
    ELSE IF n1 = n2 THEN Ratio(1, 1)
    ELSE Jaccard(Words(Lower(n1.v)), Words(Lower(n2.v)))

calculate_name_similarity_OverlapCoefficient(n1, n2) ==
    IF ~Truthy(n1) \/ ~Truthy(n2) THEN Zero
    ELSE LET words1 == Words(Lower(n1.v))
             words2 == Words(Lower(n2.v))
         IN IF words1 = {} \/ words2 = {} THEN Zero
            ELSE Ratio(Cardinality(words1 \cap words2),
                       IF Cardinality(words1) < Cardinality(words2)
                       THEN Cardinality(words1) ELSE Cardinality(words2))

calculate_name_similarity(n1, n2) ==
    IF ~Truthy(n1) \/ ~Truthy(n2) THEN Zero
    ELSE Jaccard(Words(Lower(n1.v)), Words(Lower(n2.v)))

calculate_address_similarity_OverlapCoefficient(addr1, addr2) ==
    IF ~Truthy(addr1) \/ ~Truthy(addr2) THEN Zero
    ELSE LET words1 == Words(RemoveChar(Lower(addr1.v), ","))
             words2 == Words(RemoveChar(Lower(addr2.v), ","))
         IN IF words1 = {} \/ words2 = {} THEN Zero
            ELSE Ratio(Cardinality(words1 \cap words2),
                       IF Cardinality(words1) < Cardinality(words2)
                       THEN Cardinality(words1) ELSE Cardinality(words2))

calculate_address_similarity(addr1, addr2) ==
    IF ~Truthy(addr1) \/ ~Truthy(addr2) THEN Zero
    ELSE Jaccard(Words(RemoveChar(Lower(addr1.v), ",")),
                 Words(RemoveChar(Lower(addr2.v), ",")))

(***************************************************************************)
(* Bounded inputs of the similarity primitives                             *)
(***************************************************************************)
MaxStrLen == 3
SimChars == {"a", "B", " ", ","}

RECURSIVE SeqsUpTo(_, _)
SeqsUpTo(chars, n) ==
    IF n = 0 THEN {<<>>}
    ELSE LET shorter == SeqsUpTo(chars, n - 1)
         IN shorter \cup {Append(s, c) : s \in shorter, c \in chars}

SimStrings == SeqsUpTo(SimChars, MaxStrLen)

SimInit ==
    /\ name1 \in {Str(s) : s \in SimStrings}
    /\ name2 \in {Str(s) : s \in SimStrings}
    /\ sim_fn = "none"
    /\ sim_ret = Zero

CallNameSimilarity ==
    /\ sim_fn = "none"
    /\ sim_fn' = "name"
    /\ sim_ret' = calculate_name_similarity(name1, name2)
    /\ UNCHANGED <<name1, name2>>

CallAddressSimilarity ==
    /\ sim_fn = "none"
    /\ sim_fn' = "address"
    /\ sim_ret' = calculate_address_similarity(name1, name2)
    /\ UNCHANGED <<name1, name2>>

AnIdle ==
    /\ request = None
    /\ scraped_data = None
    /\ best_provider = None
    /\ scores = <<>>
    /\ verification_result = None
    /\ an_pc = "off"

ServiceIdle ==
    /\ now = 0
    /\ hash_seed = <<>>
    /\ doctor_reports = {}
    /\ handler = <<>>

SimNext ==
    \/ CallNameSimilarity /\ UNCHANGED <<anVars, svcVars, dbVars>>
    \/ CallAddressSimilarity /\ UNCHANGED <<anVars, svcVars, dbVars>>

SpecSimInit == SimInit /\ AnIdle /\ ServiceIdle /\ DbIdle

SpecSim == SpecSimInit /\ [][SimNext]_vars

(***************************************************************************)
(* Candidate selector: get_best_matching_provider                          *)
(***************************************************************************)
S_None == <<"N","o","n","e">>

\* f"{x}" for a str or None
Format(x) == IF IsNone(x) THEN S_None ELSE x.v

\* the candidate's display name (lines 144-149)
ProviderName(provider) ==
    LET basic_info == Get(provider, "basic", EmptyDict)
    IN IF IsDict(basic_info)
       THEN Str(Strip(Format(Get(basic_info, "first_name", EmptyStr)) \o <<" ">>
                      \o Format(Get(basic_info, "last_name", EmptyStr))))
       ELSE Get(provider, "name", EmptyStr)

NameScore(req, provider) ==
    LET provider_name == ProviderName(provider)
    IN IF Truthy(provider_name)
       THEN calculate_name_similarity(req.fullName, provider_name)
       ELSE Zero

\* the non-empty taxonomy descriptions of a candidate (lines 156-164)
ProviderSpecialties(provider) ==
    LET taxonomies == Get(provider, "taxonomies", EmptyList)
    IN IF IsList(taxonomies)
       THEN {Get(taxonomies.v[i], "desc", EmptyStr) : i \in
                {j \in 1..Len(taxonomies.v) :
                    /\ IsDict(taxonomies.v[j])
                    /\ Truthy(Get(taxonomies.v[j], "desc", EmptyStr))}}
       ELSE {}

SpecialtyScore_EitherDirection(req, provider) ==
    IF Truthy(req.specialty) /\ Strip(req.specialty.v) # <<>>
    THEN IF \E spec \in ProviderSpecialties(provider) :
                \/ Contains(Lower(spec.v), Lower(req.specialty.v))
                \/ Contains(Lower(req.specialty.v), Lower(spec.v))
         THEN 1 ELSE 0
    ELSE 0

\* 1 for 1.0 and 0 for 0.0 (lines 154-168)
SpecialtyScore(req, provider) ==
    IF Truthy(req.specialty) /\ Strip(req.specialty.v) # <<>>
    THEN IF \E spec \in ProviderSpecialties(provider) :
                Contains(Lower(spec.v), Lower(req.specialty.v))
         THEN 1 ELSE 0
    ELSE 0

\* (name_score * 0.7) + (specialty_score * 0.3)
CombinedScore(name_score, specialty_score) ==
    Ratio(7 * name_score[1] + 3 * specialty_score * name_score[2], 10 * name_score[2])

Threshold == Ratio(1, 2)

Replaces_OnTie(combined_score, best_score) ==
    RatGE(combined_score, best_score[1], best_score[2]) /\ RatGT(combined_score, Threshold)

\* combined_score > best_score and combined_score > 0.5 (line 173)
Replaces(combined_score, best_score) ==
    RatGT(combined_score, best_score) /\ RatGT(combined_score, Threshold)

ScoreOf(req, provider) ==
    [name_score |-> NameScore(req, provider),
     specialty_score |-> SpecialtyScore(req, provider),
     combined_score |-> CombinedScore(NameScore(req, provider), SpecialtyScore(req, provider))]

\* the loop over providers (lines 139-175)
RECURSIVE BestMatchLoop(_, _, _, _)
BestMatchLoop(req, providers, best_match, best_score) ==
    IF providers = <<>> THEN best_match
    ELSE LET provider == Head(providers)
         IN IF ~IsDict(provider)
            THEN BestMatchLoop(req, Tail(providers), best_match, best_score)
            ELSE LET combined_score == ScoreOf(req, provider).combined_score
                 IN IF Replaces(combined_score, best_score)
                    THEN BestMatchLoop(req, Tail(providers), provider, combined_score)
                    ELSE BestMatchLoop(req, Tail(providers), best_match, best_score)

Providers(scraped) == Get(Get(scraped, "npi_data", EmptyDict), "results", EmptyList)

get_best_matching_provider(req, scraped) ==
    IF ~Truthy(Providers(scraped)) THEN None
    ELSE BestMatchLoop(req, Providers(scraped).v, None, Zero)

(***************************************************************************)
(* Bounded inputs of the selector                                          *)
(***************************************************************************)
MaxProviders == 2

S_AnnLee == <<"A","n","n"," ","L","e","e">>
S_annBLee == <<"a","n","n"," ","b"," ","l","e","e">>
S_Ann == <<"A","n","n">>
S_AnnB == <<"A","n","n"," ","B">>
S_AnnBC == <<"A","n","n"," ","B"," ","C">>
S_Bob == <<"B","o","b">>
S_Lee == <<"L","e","e">>
S_LeeDEF == <<"L","e","e"," ","D"," ","E"," ","F">>
S_Surgery == <<"S","u","r","g","e","r","y">>
S_PlasticSurgery == <<"P","l","a","s","t","i","c"," ","S","u","r","g","e","r","y">>
S_plasticSurgery == <<"p","l","a","s","t","i","c"," ","s","u","r","g","e","r","y">>
S_Urology == <<"U","r","o","l","o","g","y">>
S_Space == <<" ">>

\* a DoctorVerificationRequest
Request(fullName, specialty, address, phoneNumber, licenseNumber, insuranceNetworks, servicesOffered) ==
    [fullName |-> fullName, specialty |-> specialty, address |-> address,
     phoneNumber |-> phoneNumber, licenseNumber |-> licenseNumber,
     insuranceNetworks |-> insuranceNetworks, servicesOffered |-> servicesOffered]

Taxonomy(desc, license, primary) ==
    Dict([desc |-> desc, license |-> license, primary |-> Bool(primary)])

SelBasics ==
    {Dict([first_name |-> Str(S_Ann), last_name |-> Str(S_Lee)]),
     Dict([first_name |-> Str(S_AnnB), last_name |-> Str(S_Lee)]),
     Dict([first_name |-> Str(S_Bob), last_name |-> Str(S_Lee)]),
     Dict([first_name |-> Str(S_AnnBC), last_name |-> Str(S_LeeDEF)]),
     Dict([first_name |-> EmptyStr, last_name |-> EmptyStr]),
     EmptyDict}

SelTaxonomies ==
    {EmptyList,
     List(<<Taxonomy(Str(S_Surgery), None, TRUE)>>),
     List(<<Taxonomy(Str(S_Urology), None, TRUE), Taxonomy(Str(S_plasticSurgery), None, FALSE)>>)}

SelProviders ==
    {Dict([basic |-> b, taxonomies |-> tx]) : b \in SelBasics, tx \in SelTaxonomies}
    \cup {Dict([basic |-> None, name |-> Str(S_AnnLee)])}

SelRequests ==
    {Request(Str(n), s, None, None, None, None, None) :
        n \in {S_AnnLee, S_annBLee},
        s \in {Str(S_Surgery), Str(S_PlasticSurgery), Str(S_Space), EmptyStr}}

SelectInit ==
    /\ request \in SelRequests
    /\ scraped_data \in
         {Dict([npi_data |-> Dict([results |-> List(ps)])]) :
             ps \in SeqsUpTo(SelProviders, MaxProviders)}
    /\ best_provider = None
    /\ scores = <<>>
    /\ verification_result = None
    /\ an_pc = "ready"

SimIdle ==
    /\ name1 = None
    /\ name2 = None
    /\ sim_fn = "off"
    /\ sim_ret = Zero

\* one call of get_best_matching_provider(request, scraped_data)
SelectBest ==
    /\ an_pc = "ready"
    /\ an_pc' = "selected"
    /\ best_provider' = get_best_matching_provider(request, scraped_data)
    /\ scores' = [i \in 1..Len(Providers(scraped_data).v) |->
                     ScoreOf(request, Providers(scraped_data).v[i])]
    /\ UNCHANGED <<request, scraped_data, verification_result>>

SelectNext == SelectBest /\ UNCHANGED <<simVars, svcVars, dbVars>>

SpecSelectInit == SelectInit /\ SimIdle /\ ServiceIdle /\ DbIdle

SpecSelect == SpecSelectInit /\ [][SelectNext]_vars

(***************************************************************************)
(* Field verifiers                                                         *)
(***************************************************************************)
NPIRegistry == Atom("NPI Registry")
ProviderDirectories == Atom("Provider Directories")
GooglePlaces == Atom("Google Places")

\* the result dict of a verifier
Outcome(input_field_a, scraped_data_field_a, scraped_from, matches) ==
    [input_field_a |-> input_field_a, scraped_data_field_a |-> scraped_data_field_a,
     scraped_from |-> scraped_from, matches |-> matches]

\* input if input else None
InputField(input) == IF Truthy(input) THEN input ELSE None

\* input and input.strip()
HasInput(input) == Truthy(input) /\ Strip(input.v) # <<>>

Found(value, source) == [value |-> value, source |-> source]

\* index of the first element of seq satisfying P, 0 when there is none
FirstIndex(seq, P(_)) ==
    IF \E i \in 1..Len(seq) : P(seq[i])
    THEN CHOOSE i \in 1..Len(seq) : P(seq[i]) /\ \A j \in 1..(i - 1) : ~P(seq[j])
    ELSE 0

\* f"{basic_info.get('first_name', '')} {basic_info.get('last_name', '')}".strip()
ComposedName(basic_info) ==
    Str(Strip(Format(Get(basic_info, "first_name", EmptyStr)) \o <<" ">>
              \o Format(Get(basic_info, "last_name", EmptyStr))))

\* scraped_data["practice_locations"] when it is a list, else nothing
LooseLocations(scraped) ==
    LET practice_locations == Get(scraped, "practice_locations", EmptyList)
    IN IF IsList(practice_locations) THEN practice_locations.v ELSE <<>>

verify_full_name(input_name, scraped, best) ==
    LET f1 == IF Truthy(best) /\ IsDict(best) /\ IsDict(Get(best, "basic", EmptyDict))
              THEN LET found_name == ComposedName(Get(best, "basic", EmptyDict))
                   IN Found(found_name, IF Truthy(found_name) THEN NPIRegistry ELSE None)
              ELSE Found(None, None)
        f2 == IF ~Truthy(f1.value) /\ Truthy(Get(scraped, "name", None))
              THEN Found(Get(scraped, "name", None), ProviderDirectories)
              ELSE f1
        f3 == IF ~Truthy(f2.value)
              THEN LET i == FirstIndex(LooseLocations(scraped),
                                LAMBDA loc : IsDict(loc) /\ Truthy(Get(loc, "doctor_name", None)))
                   IN IF i > 0
                      THEN Found(LooseLocations(scraped)[i].v.doctor_name, GooglePlaces)
                      ELSE f2
              ELSE f2
    IN IF ~Truthy(f1.value) /\ ~IsDict(scraped)
       THEN \* scraped_data.get raises: the except branch returns the initial result
            Outcome(InputField(input_name), None, None, None)
       ELSE IF Truthy(f3.value)
       THEN Outcome(InputField(input_name), f3.value, f3.source,
                    IF HasInput(input_name) /\ ~LowerRaises(f3.value)
                    THEN Bool(RatGE(calculate_name_similarity(input_name, f3.value), 8, 10))
                    ELSE \* no input, or found_name.lower() raised after the
                         \* observed value and its source were recorded
                         None)
       ELSE Outcome(InputField(input_name), None, None, None)

\* the candidate's taxonomies when they are a non-empty list, else nothing
TaxonomyList(best) ==
    LET taxonomies == Get(best, "taxonomies", EmptyList)
    IN IF Truthy(taxonomies) /\ IsList(taxonomies) THEN taxonomies.v ELSE <<>>

verify_specialty(input_specialty, scraped, best) ==
    LET taxonomies == IF Truthy(best) /\ IsDict(best) THEN TaxonomyList(best) ELSE <<>>
        p == FirstIndex(taxonomies,
                LAMBDA tax : IsDict(tax) /\ Get(tax, "primary", None) \in {Bool(TRUE), PyInt(1)})
        f0 == IF p > 0 THEN Found(Get(taxonomies[p], "desc", None), NPIRegistry)
              ELSE Found(None, None)
        d == FirstIndex(taxonomies,
                LAMBDA tax : IsDict(tax) /\ Truthy(Get(tax, "desc", None)))
        f1 == IF ~Truthy(f0.value) /\ d > 0
              THEN Found(Get(taxonomies[d], "desc", None), NPIRegistry)
              ELSE f0
        f2 == IF ~Truthy(f1.value) /\ Truthy(Get(scraped, "specialty", None))
              THEN Found(Get(scraped, "specialty", None), ProviderDirectories)
              ELSE f1
        services_offered == Get(scraped, "services_offered", EmptyList)
        f3 == IF ~Truthy(f2.value) /\ IsList(services_offered) /\ Truthy(services_offered)
              THEN Found(services_offered.v[1], ProviderDirectories)
              ELSE f2
    IN IF ~Truthy(f1.value) /\ ~IsDict(scraped)
       THEN Outcome(InputField(input_specialty), None, None, None)
       ELSE IF Truthy(f3.value)
       THEN Outcome(InputField(input_specialty), f3.value, f3.source,
                    IF HasInput(input_specialty) /\ ~LowerRaises(f3.value)
                    THEN Bool(\/ Contains(Lower(f3.value.v), Lower(input_specialty.v))
                              \/ Contains(Lower(input_specialty.v), Lower(f3.value.v)))
                    ELSE None)
       ELSE Outcome(InputField(input_specialty), None, None, None)

\* the candidate's addresses followed by its practiceLocations
AllAddresses(best) ==
    LET addresses == Get(best, "addresses", EmptyList)
        practice_locations == Get(best, "practiceLocations", EmptyList)
    IN (IF IsList(addresses) THEN addresses.v ELSE <<>>)
       \o (IF IsList(practice_locations) THEN practice_locations.v ELSE <<>>)

\* the formatted address of one entry (lines 334-343)
FormatAddress(addr) ==
    LET addr_line1 == Get(addr, "address_1", EmptyStr)
        addr_line2 == Get(addr, "address_2", EmptyStr)
        city == Get(addr, "city", EmptyStr)
        state == Get(addr, "state", EmptyStr)
        postal == Get(addr, "postal_code", EmptyStr)
        street == Strip(Format(addr_line1) \o <<" ">> \o Format(addr_line2))
    IN IF Truthy(city) \/ Truthy(state) \/ Truthy(postal)
       THEN street \o Strip(<<",", " ">> \o Format(city) \o <<",", " ">>
                            \o Format(state) \o <<" ">> \o Format(postal))
       ELSE street

AddressPick_LastWins(similarity, best_similarity) ==
    RatGE(similarity, best_similarity[1], best_similarity[2])

\* similarity > best_similarity (line 348)
AddressPick(similarity, best_similarity) == RatGT(similarity, best_similarity)

\* the loop over the candidate's entries (lines 331-354)
RECURSIVE AddressLoop(_, _, _)
AddressLoop(addrs, input_address, acc) ==
    IF addrs = <<>> THEN acc
    ELSE LET addr == Head(addrs)
             formatted_address == FormatAddress(addr)
             similarity == calculate_address_similarity(input_address, Str(formatted_address))
         IN IF ~IsDict(addr) \/ Strip(formatted_address) = <<>>
            THEN AddressLoop(Tail(addrs), input_address, acc)
            ELSE IF HasInput(input_address)
            THEN IF AddressPick(similarity, acc.best_similarity)
                 THEN AddressLoop(Tail(addrs), input_address,
                        [best_address |-> Str(formatted_address),
                         best_similarity |-> similarity,
                         data_source |-> NPIRegistry])
                 ELSE AddressLoop(Tail(addrs), input_address, acc)
            ELSE IF ~Truthy(acc.best_address)
            THEN AddressLoop(Tail(addrs), input_address,
                        [best_address |-> Str(formatted_address),
                         best_similarity |-> acc.best_similarity,
                         data_source |-> NPIRegistry])
            ELSE AddressLoop(Tail(addrs), input_address, acc)

verify_address(input_address, scraped, best) ==
    LET a0 == [best_address |-> None, best_similarity |-> Zero, data_source |-> None]
        a1 == IF Truthy(best) /\ IsDict(best)
              THEN AddressLoop(AllAddresses(best), input_address, a0)
              ELSE a0
        google_address == Get(scraped, "address", None)
        a2 == IF ~Truthy(a1.best_address) /\ Truthy(google_address)
                 /\ Strip(google_address.v) # <<>>
              THEN [best_address |-> google_address,
                    best_similarity |->
                        IF HasInput(input_address)
                        THEN calculate_address_similarity(input_address, google_address)
                        ELSE a1.best_similarity,
                    data_source |-> GooglePlaces]
              ELSE a1
        locs == LooseLocations(scraped)
        a3 == IF ~Truthy(a2.best_address) /\ locs # <<>>
                 /\ IsDict(locs[1]) /\ Truthy(Get(locs[1], "address", None))
              THEN [best_address |-> locs[1].v.address,
                    best_similarity |->
                        IF HasInput(input_address)
                        THEN calculate_address_similarity(input_address, locs[1].v.address)
                        ELSE a2.best_similarity,
                    data_source |-> ProviderDirectories]
              ELSE a2
    IN IF Truthy(a3.best_address)
       THEN Outcome(InputField(input_address), a3.best_address, a3.data_source,
                    IF HasInput(input_address)
                    THEN Bool(RatGE(a3.best_similarity, 6, 10))
                    ELSE None)
       ELSE Outcome(InputField(input_address), None, None, None)

Digits == {"0", "1", "2", "3", "4", "5", "6", "7", "8", "9"}

\* ''.join(filter(str.isdigit, phone)), "" for a falsy phone
\* str.isdigit(s)
IsDigit(s) == s # <<>> /\ \A i \in 1..Len(s) : s[i] \in Digits

RECURSIVE JoinDigitItems(_)
JoinDigitItems(items) ==
    IF items = <<>> THEN <<>>
    ELSE (IF IsDigit(Head(items).v) THEN Head(items).v ELSE <<>>)
         \o JoinDigitItems(Tail(items))

\* ''.join(filter(str.isdigit, phone)) raises TypeError when phone cannot be
\* iterated (an int, a bool) or yields an item that is not a str
NormalizeRaises(phone) ==
    /\ Truthy(phone)
    /\ ~IsStr(phone)
    /\ ~IsDict(phone)
    /\ ~(IsList(phone) /\ \A i \in 1..Len(phone.v) : IsStr(phone.v[i]))

\* a str is filtered character by character and a list of str item by item;
\* a dict iterates its keys, which are field names here and never digits
normalize_phone(phone) ==
    IF ~Truthy(phone) THEN <<>>
    ELSE IF IsList(phone) THEN JoinDigitItems(phone.v)
    ELSE IF IsDict(phone) THEN <<>>
    ELSE SelectSeq(phone.v, LAMBDA c : c \in Digits)

verify_phone_number_NoFoundGuard(input_phone, scraped, best) ==
    LET all_locations == IF Truthy(best) /\ IsDict(best) THEN AllAddresses(best) ELSE <<>>
        n == FirstIndex(all_locations,
                LAMBDA addr : IsDict(addr) /\ Truthy(Get(addr, "telephone_number", None)))
        f1 == IF n > 0 THEN Found(all_locations[n].v.telephone_number, NPIRegistry)
              ELSE Found(None, None)
        f2 == IF ~Truthy(f1.value) /\ Truthy(Get(scraped, "phone_number", None))
              THEN Found(Get(scraped, "phone_number", None), GooglePlaces)
              ELSE f1
        l == FirstIndex(LooseLocations(scraped),
                LAMBDA loc : IsDict(loc) /\ Truthy(Get(loc, "phone", None)))
        f3 == IF ~Truthy(f2.value) /\ l > 0
              THEN Found(LooseLocations(scraped)[l].v.phone, ProviderDirectories)
              ELSE f2
    IN Outcome(InputField(input_phone), f3.value, f3.source,
               IF HasInput(input_phone)
               THEN Bool(normalize_phone(input_phone) = normalize_phone(f3.value))
               ELSE None)

\* the loose top-level phone consulted before the candidate's entries
verify_phone_number_PlacesFirst(input_phone, scraped, best) ==
    LET all_locations == IF Truthy(best) /\ IsDict(best) THEN AllAddresses(best) ELSE <<>>
        n == FirstIndex(all_locations,
                LAMBDA addr : IsDict(addr) /\ Truthy(Get(addr, "telephone_number", None)))
        f1 == IF Truthy(Get(scraped, "phone_number", None))
              THEN Found(Get(scraped, "phone_number", None), GooglePlaces)
              ELSE Found(None, None)
        f2 == IF ~Truthy(f1.value) /\ n > 0
              THEN Found(all_locations[n].v.telephone_number, NPIRegistry)
              ELSE f1
        l == FirstIndex(LooseLocations(scraped),
                LAMBDA loc : IsDict(loc) /\ Truthy(Get(loc, "phone", None)))
        f3 == IF ~Truthy(f2.value) /\ l > 0
              THEN Found(LooseLocations(scraped)[l].v.phone, ProviderDirectories)
              ELSE f2
    IN IF Truthy(f3.value)
       THEN Outcome(InputField(input_phone), f3.value, f3.source,
                    IF HasInput(input_phone) /\ ~NormalizeRaises(f3.value)
                    THEN Bool(normalize_phone(input_phone) = normalize_phone(f3.value))
                    ELSE None)
       ELSE Outcome(InputField(input_phone), None, None, None)

verify_phone_number(input_phone, scraped, best) ==
    LET all_locations == IF Truthy(best) /\ IsDict(best) THEN AllAddresses(best) ELSE <<>>
        n == FirstIndex(all_locations,
                LAMBDA addr : IsDict(addr) /\ Truthy(Get(addr, "telephone_number", None)))
        f1 == IF n > 0 THEN Found(all_locations[n].v.telephone_number, NPIRegistry)
              ELSE Found(None, None)
        f2 == IF ~Truthy(f1.value) /\ Truthy(Get(scraped, "phone_number", None))
              THEN Found(Get(scraped, "phone_number", None), GooglePlaces)
              ELSE f1
        l == FirstIndex(LooseLocations(scraped),
                LAMBDA loc : IsDict(loc) /\ Truthy(Get(loc, "phone", None)))
        f3 == IF ~Truthy(f2.value) /\ l > 0
              THEN Found(LooseLocations(scraped)[l].v.phone, ProviderDirectories)
              ELSE f2
    IN IF ~Truthy(f1.value) /\ ~IsDict(scraped)
       THEN Outcome(InputField(input_phone), None, None, None)
       ELSE IF Truthy(f3.value)
       THEN Outcome(InputField(input_phone), f3.value, f3.source,
                    IF HasInput(input_phone) /\ ~NormalizeRaises(f3.value)
                    THEN Bool(normalize_phone(input_phone) = normalize_phone(f3.value))
                    ELSE None)
       ELSE Outcome(InputField(input_phone), None, None, None)

S_DashDash == <<"-","-">>
S_NA == <<"N","/","A">>
S_familyMedicine == <<"f","a","m","i","l","y"," ","m","e","d","i","c","i","n","e">>
S_family == <<"f","a","m","i","l","y">>
S_internalMedicine == <<"i","n","t","e","r","n","a","l"," ","m","e","d","i","c","i","n","e">>
S_internal == <<"i","n","t","e","r","n","a","l">>
S_cardiology == <<"c","a","r","d","i","o","l","o","g","y">>
S_cardio == <<"c","a","r","d","i","o">>
S_heart == <<"h","e","a","r","t">>

\* the specialty test of strategy 1 (lines 489-501)
LicenseSpecialtyMatch(tax_desc, specialty_lower) ==
    \/ specialty_lower = tax_desc
    \/ Contains(tax_desc, specialty_lower)
    \/ Contains(specialty_lower, tax_desc)
    \/ (specialty_lower = S_familyMedicine /\ Contains(tax_desc, S_family))
    \/ (specialty_lower = S_internalMedicine /\ Contains(tax_desc, S_internal))
    \/ (specialty_lower = S_cardiology
          /\ (Contains(tax_desc, S_cardio) \/ Contains(tax_desc, S_heart)))

\* a filter that lets the placeholders through
UsableLicense_PlaceholdersPass(license_value) == license_value # <<>>

\* license_value and license_value != "--" and license_value.upper() != "N/A"
UsableLicense(license_value) ==
    license_value # <<>> /\ license_value # S_DashDash /\ Upper(license_value) # S_NA

\* the license the three strategies select, None when none does (lines 485-530)
MatchingLicense(taxonomies, request_specialty) ==
    LET s1 == IF HasInput(request_specialty)
              THEN FirstIndex(taxonomies, LAMBDA tax :
                      /\ IsDict(tax)
                      /\ Truthy(Get(tax, "desc", None))
                      /\ Truthy(Get(tax, "license", None))
                      /\ LicenseSpecialtyMatch(Strip(Lower(Get(tax, "desc", EmptyStr).v)),
                                               Strip(Lower(request_specialty.v)))
                      /\ Strip(Get(tax, "license", EmptyStr).v) # <<>>)
              ELSE 0
        s2 == FirstIndex(taxonomies, LAMBDA tax :
                      /\ IsDict(tax)
                      /\ Get(tax, "primary", None) = Bool(TRUE)
                      /\ Truthy(Get(tax, "license", None))
                      /\ UsableLicense(Strip(Get(tax, "license", EmptyStr).v)))
        s3 == FirstIndex(taxonomies, LAMBDA tax :
                      /\ IsDict(tax)
                      /\ Truthy(Get(tax, "license", None))
                      /\ UsableLicense(Strip(Get(tax, "license", EmptyStr).v)))
    IN IF s1 > 0 THEN Str(Strip(taxonomies[s1].v.license.v))
       ELSE IF s2 > 0 THEN Str(Strip(taxonomies[s2].v.license.v))
       ELSE IF s3 > 0 THEN Str(Strip(taxonomies[s3].v.license.v))
       ELSE None

verify_license_number(input_license, scraped, best, request_specialty) ==
    LET taxonomies == Get(best, "taxonomies", EmptyList)
        matching_license ==
            IF Truthy(best) /\ IsDict(best) /\ IsList(taxonomies)
            THEN MatchingLicense(taxonomies.v, request_specialty)
            ELSE None
    IN IF Truthy(matching_license)
       THEN Outcome(InputField(input_license), matching_license, NPIRegistry,
                    IF HasInput(input_license)
                    THEN Bool(Strip(Upper(input_license.v))
                                = Strip(Upper(matching_license.v)))
                    ELSE None)
       ELSE Outcome(InputField(input_license), None, None, None)

S_MEDICAID == <<"M","E","D","I","C","A","I","D">>
S_MEDICARE == <<"M","E","D","I","C","A","R","E">>
S_blueShield == <<"b","l","u","e"," ","s","h","i","e","l","d">>
S_blueCross == <<"b","l","u","e"," ","c","r","o","s","s">>
S_aetna == <<"a","e","t","n","a">>
S_cigna == <<"c","i","g","n","a">>
S_humana == <<"h","u","m","a","n","a">>
S_united == <<"u","n","i","t","e","d">>

\* the canonical network of one identifier entry, None when no rule applies
\* (lines 576-594)
NetworkOf(identifier) ==
    LET desc == Get(identifier, "desc", EmptyStr)
        issuer == Get(identifier, "issuer", EmptyStr)
    IN IF Truthy(desc) /\ Contains(Upper(desc.v), S_MEDICAID) THEN Atom("Medicaid")
       ELSE IF Truthy(desc) /\ Contains(Upper(desc.v), S_MEDICARE) THEN Atom("Medicare")
       ELSE IF Truthy(issuer)
       THEN LET issuer_lower == Lower(issuer.v)
            IN IF Contains(issuer_lower, S_blueShield) \/ Contains(issuer_lower, S_blueCross)
               THEN Atom("Blue Cross Blue Shield")
               ELSE IF Contains(issuer_lower, S_aetna) THEN Atom("Aetna")
               ELSE IF Contains(issuer_lower, S_cigna) THEN Atom("Cigna")
               ELSE IF Contains(issuer_lower, S_humana) THEN Atom("Humana")
               ELSE IF Contains(issuer_lower, S_united) THEN Atom("UnitedHealthcare")
               ELSE None
       ELSE None

\* a loop that stops after the first identifier
FoundNetworks_FirstOnly(best) ==
    LET identifiers == Get(best, "identifiers", EmptyList)
    IN IF IsList(identifiers) /\ Len(identifiers.v) > 0 /\ IsDict(identifiers.v[1])
       THEN {NetworkOf(identifiers.v[1])} \ {None}
       ELSE {}

\* set(found_networks) for the candidate's identifiers (lines 568-594)
FoundNetworks(best) ==
    LET identifiers == Get(best, "identifiers", EmptyList)
    IN IF IsList(identifiers)
       THEN {NetworkOf(identifiers.v[i]) : i \in
                {j \in 1..Len(identifiers.v) : IsDict(identifiers.v[j])}} \ {None}
       ELSE {}

\* a comparison that wants every claimed network found
NetworksMatch_AllClaimed(input_set, found_set) == input_set \subseteq found_set

\* len(input_set & found_set) > 0 (lines 603-606)
NetworksMatch(input_set, found_set) == input_set \cap found_set # {}

\* list(set(...)): the elements of S once each, in an order the hash seed decides
Orderings(S) ==
    {q \in [1..Cardinality(S) -> S] : \A x \in S : \E i \in 1..Cardinality(S) : q[i] = x}

\* the outcomes verify_insurance_networks can return: one per order of unique_networks
verify_insurance_networks(input_networks, scraped, best) ==
    LET found_set == IF Truthy(best) /\ IsDict(best) THEN FoundNetworks(best) ELSE {}
    IN IF found_set # {}
       THEN {Outcome(InputField(input_networks), List(unique_networks), NPIRegistry,
                     IF Truthy(input_networks) /\ Len(input_networks.v) > 0
                     THEN Bool(NetworksMatch(
                                  {input_networks.v[i] : i \in 1..Len(input_networks.v)},
                                  found_set))
                     ELSE None) : unique_networks \in Orderings(found_set)}
       ELSE {Outcome(InputField(input_networks), None, None, None)}

verify_services_offered(input_services, scraped, best) ==
    LET services_found == Get(scraped, "services_offered", EmptyList)
    IN IF Truthy(services_found) /\ IsList(services_found)
       THEN Outcome(InputField(input_services), services_found, ProviderDirectories,
                    IF HasInput(input_services)
                    THEN LET input_lower == Lower(input_services.v)
                         IN Bool(\E i \in 1..Len(services_found.v) :
                                  /\ IsStr(services_found.v[i])
                                  /\ LET service_lower == Lower(services_found.v[i].v)
                                     IN \/ Contains(input_lower, service_lower)
                                        \/ \E word \in Words(service_lower) :
                                              Len(word) > 2 /\ Contains(input_lower, word))
                    ELSE None)
       ELSE Outcome(InputField(input_services), None, None, None)

(***************************************************************************)
(* Reconciliation orchestrator: analyze_verification                       *)
(***************************************************************************)
\* the seven verifier calls of lines 114-122, for a given best_provider
VerifyFields(req, scraped, best) ==
    {[fullName |-> verify_full_name(req.fullName, scraped, best),
      specialty |-> verify_specialty(req.specialty, scraped, best),
      address |-> verify_address(req.address, scraped, best),
      phoneNumber |-> verify_phone_number(req.phoneNumber, scraped, best),
      licenseNumber |-> verify_license_number(req.licenseNumber, scraped, best, req.specialty),
      insuranceNetworks |-> ins,
      servicesOffered |-> verify_services_offered(req.servicesOffered, scraped, best)] :
         ins \in verify_insurance_networks(req.insuranceNetworks, scraped, best)}

\* the reports analyze_verification can return
analyze_verification(req, scraped) ==
    VerifyFields(req, scraped, get_best_matching_provider(req, scraped))

FieldNames == {"fullName", "specialty", "address", "phoneNumber", "licenseNumber",
               "insuranceNetworks", "servicesOffered"}

(***************************************************************************)
(* Bounded inputs of analyze_verification and of the verifiers             *)
(***************************************************************************)
MaxCandidates == 2

S_JohnASmith == <<"J","o","h","n"," ","A","."," ","S","m","i","t","h">>
S_JohnSmith == <<"J","o","h","n"," ","S","m","i","t","h">>
S_John == <<"J","o","h","n">>
S_JohnJohn == <<"J","o","h","n"," ","J","o","h","n">>
S_JohnA == <<"J","o","h","n"," ","A",".">>
S_Smith == <<"S","m","i","t","h">>
S_Blank == <<" "," ">>
S_Addr100MainSt == <<"1","0","0"," ","M","a","i","n"," ","S","t",","," ","S","p","r","i","n","g","f","i","e","l","d",","," ","I","L">>
S_Addr100MainStreetFull == <<"1","0","0"," ","M","a","i","n"," ","S","t","r","e","e","t",","," ","S","p","r","i","n","g","f","i","e","l","d",","," ","I","L"," ","6","2","7","0","1">>
S_Addr1Elm == <<"1"," ","E","l","m"," ","S","t",","," ","B","o","s","t","o","n",","," ","M","A">>
S_100MainStreet == <<"1","0","0"," ","M","a","i","n"," ","S","t","r","e","e","t">>
S_Springfield == <<"S","p","r","i","n","g","f","i","e","l","d">>
S_IL == <<"I","L">>
S_62701 == <<"6","2","7","0","1">>
S_POBox9 == <<"P","O"," ","B","o","x"," ","9">>
S_Boston == <<"B","o","s","t","o","n">>
S_MA == <<"M","A">>
S_Phone212Paren == <<"(","2","1","2",")"," ","5","5","5","-","0","1","9","9">>
S_Phone212Dash == <<"2","1","2","-","5","5","5","-","0","1","9","9">>
S_Phone617 == <<"6","1","7","-","5","5","5","-","0","1","0","0">>
S_ab1234 == <<"a","b","1","2","3","4">>
S_AB1234 == <<"A","B","1","2","3","4">>
S_XY99 == <<"X","Y","9","9">>
S_CignaHealth == <<"C","i","g","n","a"," ","H","e","a","l","t","h">>
S_MedicaidDesc == <<"M","e","d","i","c","a","i","d">>
S_OtherDesc == <<"O","t","h","e","r">>
S_surgeryConsult == <<"s","u","r","g","e","r","y"," ","c","o","n","s","u","l","t">>
S_Xray == <<"X","-","r","a","y">>
S_LOCATION == <<"L","O","C","A","T","I","O","N">>
S_MAILING == <<"M","A","I","L","I","N","G">>

Address(address_1, city, state, postal_code, telephone_number, address_purpose) ==
    Dict([address_1 |-> Str(address_1), address_2 |-> EmptyStr, city |-> Str(city),
          state |-> Str(state), postal_code |-> Str(postal_code),
          telephone_number |-> Str(telephone_number),
          address_purpose |-> Str(address_purpose)])

Identifier(desc, issuer) == Dict([desc |-> Str(desc), issuer |-> Str(issuer)])

P_JohnSmith ==
    Dict([basic |-> Dict([first_name |-> Str(S_John), last_name |-> Str(S_Smith)]),
          taxonomies |-> List(<<Taxonomy(Str(S_Surgery), Str(S_AB1234), TRUE)>>),
          addresses |-> List(<<Address(S_100MainStreet, S_Springfield, S_IL, S_62701,
                                       S_Phone212Dash, S_LOCATION)>>),
          identifiers |-> List(<<Identifier(S_MedicaidDesc, <<>>),
                                 Identifier(S_OtherDesc, S_CignaHealth)>>)])

P_JohnASmith ==
    Dict([basic |-> Dict([first_name |-> Str(S_JohnA), last_name |-> Str(S_Smith)]),
          taxonomies |-> List(<<Taxonomy(Str(S_Urology), Str(S_DashDash), TRUE),
                                Taxonomy(Str(S_plasticSurgery), Str(S_XY99), FALSE)>>),
          addresses |-> List(<<Address(S_POBox9, S_Boston, S_MA, <<>>, <<>>, S_MAILING),
                               Address(S_100MainStreet, S_Springfield, S_IL, S_62701,
                                       S_Phone617, S_LOCATION)>>),
          identifiers |-> List(<<Identifier(S_OtherDesc, <<>>)>>)])

P_Bare ==
    Dict([basic |-> Dict([first_name |-> Str(S_John), last_name |-> Str(S_Smith)])])

AnProviders == {P_JohnSmith, P_JohnASmith, P_Bare}

\* the loose top-level evidence of the bag
LooseAbsent == <<>>
LooseEmpty ==
    [name |-> EmptyStr, specialty |-> EmptyStr, address |-> None, phone_number |-> None,
     services_offered |-> EmptyList, practice_locations |-> EmptyList]
LooseFull ==
    [name |-> Str(S_JohnSmith), specialty |-> Str(S_Surgery),
     address |-> Str(S_Addr100MainStreetFull), phone_number |-> Str(S_Phone212Paren),
     services_offered |-> List(<<Str(S_surgeryConsult), Str(S_Xray)>>),
     practice_locations |-> EmptyList]
LooseLocations_Only ==
    [practice_locations |->
        List(<<Dict([address |-> Str(S_Addr1Elm), phone |-> Str(S_Phone617),
                     doctor_name |-> Str(S_JohnASmith)])>>)]

AnLoose == {LooseAbsent, LooseEmpty, LooseFull, LooseLocations_Only}

AnBags ==
    {Dict(loose @@ [npi_data |-> Dict([results |-> List(ps)])]) :
        loose \in AnLoose, ps \in SeqsUpTo(AnProviders, MaxCandidates)}

\* the optional claimed values vary together: each verifier reads only its own
\* field (and verify_license_number the specialty), so every verifier still
\* meets each kind of claimed value with each bag
OptionalKinds == {"absent", "blank", "a", "b"}

OptionalFields(kind) ==
    CASE kind = "absent" ->
           [address |-> None, phoneNumber |-> None, licenseNumber |-> None,
            insuranceNetworks |-> None, servicesOffered |-> None]
      [] kind = "blank" ->
           [address |-> Str(S_Blank), phoneNumber |-> Str(S_Blank),
            licenseNumber |-> Str(S_Blank), insuranceNetworks |-> EmptyList,
            servicesOffered |-> Str(S_Blank)]
      [] kind = "a" ->
           [address |-> Str(S_Addr100MainSt), phoneNumber |-> Str(S_Phone212Paren),
            licenseNumber |-> Str(S_ab1234),
            insuranceNetworks |-> List(<<Atom("Aetna"), Atom("Cigna")>>),
            servicesOffered |-> Str(S_Surgery)]
      [] kind = "b" ->
           [address |-> Str(S_Addr1Elm), phoneNumber |-> Str(S_Phone617),
            licenseNumber |-> Str(S_XY99),
            insuranceNetworks |-> List(<<Atom("Humana")>>),
            servicesOffered |-> Str(S_Urology)]

AnRequests ==
    {Request(n, s, OptionalFields(k).address, OptionalFields(k).phoneNumber,
             OptionalFields(k).licenseNumber, OptionalFields(k).insuranceNetworks,
             OptionalFields(k).servicesOffered) :
        n \in {Str(S_JohnASmith), Str(S_JohnSmith), Str(S_Blank)},
        s \in {Str(S_Surgery), Str(S_PlasticSurgery), Str(S_Blank)},
        k \in OptionalKinds}

AnalyzeInit ==
    /\ request \in AnRequests
    /\ scraped_data \in AnBags
    /\ best_provider = None
    /\ scores = <<>>
    /\ verification_result = None
    /\ an_pc = "ready"

\* one call of analyze_verification(request, scraped_data)
AnalyzeVerification ==
    /\ an_pc = "ready"
    /\ an_pc' = "analyzed"
    /\ best_provider' = get_best_matching_provider(request, scraped_data)
    /\ verification_result' \in analyze_verification(request, scraped_data)
    /\ UNCHANGED <<request, scraped_data, scores>>

\* the seven verifiers called directly, with any candidate as best match
CallVerifiers ==
    /\ an_pc = "ready"
    /\ an_pc' = "verified"
    /\ \E best \in AnProviders \cup {None} :
          /\ best_provider' = best
          /\ verification_result' \in VerifyFields(request, scraped_data, best)
    /\ UNCHANGED <<request, scraped_data, scores>>

AnalyzeNext ==
    \/ AnalyzeVerification /\ UNCHANGED <<simVars, svcVars, dbVars>>
    \/ CallVerifiers /\ UNCHANGED <<simVars, svcVars, dbVars>>

SpecAnalyzeInit == AnalyzeInit /\ SimIdle /\ ServiceIdle /\ DbIdle

SpecAnalyze == SpecAnalyzeInit /\ [][AnalyzeNext]_vars

(***************************************************************************)
(* The verifiers on evidence of any shape                                  *)
(***************************************************************************)
S_212 == <<"2","1","2">>
S_5550199 == <<"5","5","5","0","1","9","9">>

\* bags with missing keys, values of the wrong type and non-dict entries
MalformedBags ==
    {None,
     EmptyDict,
     Dict(LooseFull),
     Dict([name |-> List(<<Str(S_JohnSmith)>>), specialty |-> PyInt(7),
           phone_number |-> PyInt(212), services_offered |-> Str(S_Surgery),
           practice_locations |-> Str(S_Surgery)]),
     Dict([services_offered |-> List(<<Dict([name |-> Str(S_Surgery)])>>),
           practice_locations |->
              List(<<Str(S_Surgery), None,
                     Dict([doctor_name |-> PyInt(7),
                           phone |-> List(<<Str(S_212), Str(S_5550199)>>)])>>)])}

\* candidates that are not dicts, or hold entries of the wrong shape
MalformedProviders ==
    {None,
     Str(S_JohnSmith),
     List(<<P_JohnSmith>>),
     P_JohnSmith,
     Dict([basic |-> Str(S_JohnSmith), taxonomies |-> Str(S_Surgery),
           addresses |-> Str(S_100MainStreet)]),
     Dict([basic |-> Dict([last_name |-> None]),
           taxonomies |-> List(<<Str(S_Surgery),
                                 Dict([desc |-> PyInt(207), primary |-> Bool(TRUE)])>>),
           addresses |-> List(<<None, Dict([telephone_number |-> PyInt(212)])>>)]),
     Dict([taxonomies |-> List(<<Dict([desc |-> List(<<Str(S_Surgery)>>)])>>),
           practiceLocations |->
              List(<<Dict([telephone_number |-> List(<<Str(S_212), PyInt(7)>>)])>>)])}

MalformedRequests ==
    {Request(Str(S_JohnSmith), Str(S_Surgery), OptionalFields(k).address,
             OptionalFields(k).phoneNumber, OptionalFields(k).licenseNumber,
             OptionalFields(k).insuranceNetworks, OptionalFields(k).servicesOffered) :
        k \in {"absent", "a"}}

MalformedInit ==
    /\ request \in MalformedRequests
    /\ scraped_data \in MalformedBags
    /\ best_provider \in MalformedProviders
    /\ scores = <<>>
    /\ verification_result = None
    /\ an_pc = "ready"

CallVerifyFullName ==
    /\ an_pc = "ready"
    /\ an_pc' = "verify_full_name"
    /\ verification_result' = verify_full_name(request.fullName, scraped_data, best_provider)
    /\ UNCHANGED <<request, scraped_data, best_provider, scores>>

CallVerifySpecialty ==
    /\ an_pc = "ready"
    /\ an_pc' = "verify_specialty"
    /\ verification_result' = verify_specialty(request.specialty, scraped_data, best_provider)
    /\ UNCHANGED <<request, scraped_data, best_provider, scores>>

CallVerifyPhoneNumber ==
    /\ an_pc = "ready"
    /\ an_pc' = "verify_phone_number"
    /\ verification_result' =
          verify_phone_number(request.phoneNumber, scraped_data, best_provider)
    /\ UNCHANGED <<request, scraped_data, best_provider, scores>>

MalformedNext ==
    \/ CallVerifyFullName /\ UNCHANGED <<simVars, svcVars, dbVars>>
    \/ CallVerifySpecialty /\ UNCHANGED <<simVars, svcVars, dbVars>>
    \/ CallVerifyPhoneNumber /\ UNCHANGED <<simVars, svcVars, dbVars>>

SpecMalformedInit == MalformedInit /\ SimIdle /\ ServiceIdle /\ DbIdle

SpecMalformed == SpecMalformedInit /\ [][MalformedNext]_vars

(***************************************************************************)
(* The verifiers called one at a time on registry candidates               *)
(***************************************************************************)
MaxTaxonomies == 2    \* taxonomy entries of a candidate

S_GeneralSurgery == <<"G","e","n","e","r","a","l"," ","S","u","r","g","e","r","y">>
S_HeartDisease == <<"H","e","a","r","t"," ","D","i","s","e","a","s","e">>
S_Cardiology == <<"C","a","r","d","i","o","l","o","g","y">>
S_na == <<"n","/","a">>
S_AB1234Padded == <<" ","A","B","1","2","3","4"," ">>
S_ab1234Padded == <<" ","a","b","1","2","3","4">>
S_xy99 == <<"x","y","9","9">>

\* the lists of at most n elements of a set
ListsUpTo(elements, n) == UNION {[1..k -> elements] : k \in 0..n}

FieldTaxonomies ==
    {Dict([desc |-> Str(desc), license |-> license, primary |-> Bool(primary)]) :
        desc \in {S_GeneralSurgery, S_HeartDisease},
        license \in {None, Str(S_Blank), Str(S_DashDash), Str(S_na), Str(S_AB1234Padded),
                     Str(S_xy99)},
        primary \in BOOLEAN}

\* analyze_verification about to call verify_license_number (line 118)
LicenseCalls ==
    {<<"license",
       Request(Str(S_JohnSmith), specialty, None, None, licenseNumber, None, None),
       EmptyDict,
       Dict([taxonomies |-> List(taxonomies)])>> :
        specialty \in {Str(S_Surgery), Str(S_Cardiology), Str(S_Blank)},
        licenseNumber \in {Str(S_ab1234Padded), Str(S_XY99)},
        taxonomies \in ListsUpTo(FieldTaxonomies, MaxTaxonomies)}

MaxIdentifiers == 2   \* payer-identifier entries of a candidate

S_StateMedicaid == <<"S","t","a","t","e"," ","M","e","d","i","c","a","i","d">>
S_medicarePartB == <<"m","e","d","i","c","a","r","e"," ","p","a","r","t"," ","b">>
S_MedicareMedicaid == <<"M","E","D","I","C","A","R","E","-","M","E","D","I","C","A","I","D">>
S_AetnaUnited == <<"A","e","t","n","a"," ","U","n","i","t","e","d">>
S_BLUECROSS == <<"B","L","U","E"," ","C","R","O","S","S">>
S_Humana == <<"H","u","m","a","n","a">>
S_Acme == <<"A","c","m","e">>

FieldIdentifiers ==
    {Dict([desc |-> Str(desc), issuer |-> Str(issuer)]) :
        desc \in {<<>>, S_StateMedicaid, S_medicarePartB, S_MedicareMedicaid},
        issuer \in {<<>>, S_CignaHealth, S_AetnaUnited, S_BLUECROSS, S_Humana, S_Acme}}

\* analyze_verification about to call verify_insurance_networks (line 119)
InsuranceCalls ==
    {<<"insurance",
       Request(Str(S_JohnSmith), Str(S_Surgery), None, None, None, insuranceNetworks, None),
       EmptyDict,
       Dict([identifiers |-> List(identifiers)])>> :
        insuranceNetworks \in {None, List(<<Atom("Aetna"), Atom("Cigna")>>),
                               List(<<Atom("Humana")>>), List(<<Atom("aetna")>>)},
        identifiers \in ListsUpTo(FieldIdentifiers, MaxIdentifiers)}

MaxAddresses == 2     \* address entries of a candidate

FieldAddresses ==
    {Address(S_100MainStreet, S_Springfield, S_IL, S_62701, S_Phone212Dash, S_LOCATION),
     Address(S_100MainStreet, S_Boston, S_MA, <<>>, S_Phone617, S_LOCATION),
     Address(S_POBox9, S_Boston, S_MA, <<>>, <<>>, S_MAILING),
     Address(<<>>, <<>>, <<>>, <<>>, <<>>, S_LOCATION)}

\* analyze_verification about to call verify_address (line 116)
AddressCalls ==
    {<<"address",
       Request(Str(S_JohnSmith), Str(S_Surgery), address, None, None, None, None),
       loose,
       provider>> :
        address \in {None, Str(S_Blank), Str(S_Addr100MainSt), Str(S_Addr1Elm)},
        loose \in {EmptyDict, Dict([address |-> Str(S_Addr100MainStreetFull)]),
                   Dict(LooseLocations_Only)},
        provider \in {Dict([addresses |-> List(entries)]) :
                         entries \in ListsUpTo(FieldAddresses, MaxAddresses)}
                     \cup {Dict([practiceLocations |-> List(entries)]) :
                         entries \in ListsUpTo(FieldAddresses, MaxAddresses)}}

S_Phone312 == <<"3","1","2","-","5","5","5","-","0","1","4","2">>

\* the loose practice locations that provider directories contribute
PhoneLocations(phones) ==
    List([i \in 1..Len(phones) |->
             Dict([address |-> Str(S_Addr1Elm), phone |-> Str(phones[i]),
                   doctor_name |-> Str(S_JohnASmith)])])

\* analyze_verification about to call verify_phone_number (line 117)
PhoneCalls ==
    {<<"phone",
       Request(Str(S_JohnSmith), Str(S_Surgery), None, phoneNumber, None, None, None),
       Dict(phone_number @@ practice_locations),
       provider>> :
        phoneNumber \in {None, Str(S_Phone212Paren), Str(S_Phone312)},
        phone_number \in {<<>>, [phone_number |-> None], [phone_number |-> EmptyStr],
                          [phone_number |-> Str(S_Phone212Paren)]},
        practice_locations \in
            {<<>>,
             [practice_locations |-> PhoneLocations(<<<<>>, S_Phone312>>)],
             [practice_locations |-> PhoneLocations(<<S_Phone617, S_Phone312>>)]},
        provider \in {None}
                     \cup {Dict([addresses |-> List(entries)] @@ locations) :
                             entries \in ListsUpTo(FieldAddresses, MaxAddresses),
                             locations \in
                                {<<>>,
                                 [practiceLocations |->
                                    List(<<Address(S_POBox9, S_Boston, S_MA, <<>>, <<>>,
                                                   S_MAILING)>>)],
                                 [practiceLocations |->
                                    List(<<Address(S_100MainStreet, S_Boston, S_MA, <<>>,
                                                   S_Phone312, S_LOCATION)>>)]}}}

S_EyeCare == <<"E","y","e"," ","C","a","r","e">>
S_LabWork == <<"L","a","b"," ","W","o","r","k">>
S_careerAdvice == <<"c","a","r","e","e","r"," ","a","d","v","i","c","e">>
S_EYEExams == <<"E","Y","E"," ","e","x","a","m","s">>
S_eyeCareAndLab == <<"e","y","e"," ","c","a","r","e",","," ","l","a","b">>

\* analyze_verification about to call verify_services_offered (line 120)
ServicesCalls ==
    {<<"services",
       Request(Str(S_JohnSmith), Str(S_Surgery), None, None, None, None, servicesOffered),
       Dict(services_offered),
       None>> :
        servicesOffered \in {None, Str(S_Blank), Str(S_careerAdvice), Str(S_EYEExams),
                             Str(S_eyeCareAndLab), Str(S_Xray)},
        services_offered \in
            {<<>>} \cup {[services_offered |-> List(services)] :
                            services \in ListsUpTo({Str(S_EyeCare), Str(S_LabWork),
                                                    Str(S_Xray)}, 2)}}

FieldCalls == LicenseCalls \cup InsuranceCalls \cup AddressCalls \cup PhoneCalls
              \cup ServicesCalls

FieldsInit ==
    /\ \E call \in FieldCalls :
          /\ an_pc = call[1]
          /\ request = call[2]
          /\ scraped_data = call[3]
          /\ best_provider = call[4]
    /\ scores = <<>>
    /\ verification_result = None
    /\ name1 = None
    /\ name2 = None
    /\ sim_fn = "off"
    /\ sim_ret = Zero
    /\ now = 0
    /\ hash_seed = <<>>
    /\ doctor_reports = {}
    /\ handler = <<>>

CallVerifyLicenseNumber ==
    /\ an_pc = "license"
    /\ an_pc' = "verify_license_number"
    /\ verification_result' = verify_license_number(request.licenseNumber, scraped_data,
                                                    best_provider, request.specialty)
    /\ UNCHANGED <<request, scraped_data, best_provider, scores, simVars, svcVars, dbVars>>

CallVerifyInsuranceNetworks ==
    /\ an_pc = "insurance"
    /\ an_pc' = "verify_insurance_networks"
    /\ verification_result' \in verify_insurance_networks(request.insuranceNetworks,
                                                         scraped_data, best_provider)
    /\ UNCHANGED <<request, scraped_data, best_provider, scores, simVars, svcVars, dbVars>>

CallVerifyAddress ==
    /\ an_pc = "address"
    /\ an_pc' = "verify_address"
    /\ verification_result' = verify_address(request.address, scraped_data, best_provider)
    /\ UNCHANGED <<request, scraped_data, best_provider, scores, simVars, svcVars, dbVars>>

CallVerifyPhone ==
    /\ an_pc = "phone"
    /\ an_pc' = "verify_phone_number"
    /\ verification_result' = verify_phone_number(request.phoneNumber, scraped_data,
                                                  best_provider)
    /\ UNCHANGED <<request, scraped_data, best_provider, scores, simVars, svcVars, dbVars>>

CallVerifyServices ==
    /\ an_pc = "services"
    /\ an_pc' = "verify_services_offered"
    /\ verification_result' = verify_services_offered(request.servicesOffered, scraped_data,
                                                      best_provider)
    /\ UNCHANGED <<request, scraped_data, best_provider, scores, simVars, svcVars, dbVars>>

FieldsNext ==
    \/ CallVerifyAddress
    \/ CallVerifyPhone
    \/ CallVerifyServices
    \/ CallVerifyLicenseNumber
    \/ CallVerifyInsuranceNetworks

SpecFieldsInit == FieldsInit /\ DbIdle

SpecFields == SpecFieldsInit /\ [][FieldsNext]_vars

(***************************************************************************)
(* DoctorInfoScraper: the evidence bag built from the external sources     *)
(***************************************************************************)
MedicalBoard == Atom("Medical Board")

\* dict.update
Update(d, e) == Dict(e.v @@ d.v)

\* the practice_locations entry built from a registry address
NpiLocation(addr) ==
    Dict([address |-> Str(Strip(Format(Get(addr, "address_1", EmptyStr)) \o <<" ">>
                                \o Format(Get(addr, "address_2", EmptyStr)))),
          city |-> Get(addr, "city", None),
          state |-> Get(addr, "state", None),
          postal_code |-> Get(addr, "postal_code", None),
          phone |-> Get(addr, "telephone_number", None)])

\* the provider_info built from one result of the registry's response
NpiProviderInfo(result) ==
    LET basic == Get(result, "basic", EmptyDict)
        addresses == Get(result, "addresses", EmptyList)
        taxonomies == Get(result, "taxonomies", EmptyList)
    IN Dict([npi |-> Get(result, "number", None),
             name |-> Str(Format(Get(basic, "first_name", EmptyStr)) \o <<" ">>
                          \o Format(Get(basic, "last_name", EmptyStr))),
             credential |-> Get(basic, "credential", None),
             gender |-> Get(basic, "gender", None),
             enumeration_date |-> Get(basic, "enumeration_date", None),
             taxonomies |-> List([i \in 1..Len(taxonomies.v) |->
                                     Get(taxonomies.v[i], "desc", None)]),
             addresses |-> addresses,
             practice_locations |->
                 List([i \in 1..Len(SelectSeq(addresses.v,
                          LAMBDA a : Get(a, "address_purpose", None) = Str(S_LOCATION))) |->
                       NpiLocation(SelectSeq(addresses.v,
                          LAMBDA a : Get(a, "address_purpose", None) = Str(S_LOCATION))[i])])])

\* response is the registry's JSON body, or None when the request failed or
\* the status was not 200
search_npi_registry(response) ==
    IF IsNone(response) THEN EmptyDict
    ELSE LET results == Get(response, "results", EmptyList)
         IN Dict([providers |-> List([i \in 1..Len(results.v) |->
                                         NpiProviderInfo(results.v[i])]),
                  total_results |-> PyInt(Len(results.v))])

\* healthgrades_data and webmd_data are what _search_healthgrades and
\* _search_webmd returned: {} or the fields of the first listing
search_provider_directories(healthgrades_data, webmd_data) ==
    LET provider_info == Dict([address |-> None, phone_number |-> None,
                               services_offered |-> EmptyList,
                               affiliated_insurance_networks |-> EmptyList])
        p1 == IF Truthy(healthgrades_data) THEN Update(provider_info, healthgrades_data)
              ELSE provider_info
        p2 == IF Truthy(webmd_data) /\ Truthy(Get(webmd_data, "services_offered", None))
              THEN Update(p1, Dict([services_offered |->
                        List(p1.v.services_offered.v \o webmd_data.v.services_offered.v)]))
              ELSE p1
        p3 == IF /\ Truthy(webmd_data)
                 /\ Truthy(Get(webmd_data, "phone_number", None))
                 /\ ~Truthy(p2.v.phone_number)
              THEN Update(p2, Dict([phone_number |-> webmd_data.v.phone_number]))
              ELSE p2
    IN p3

\* result is the Place Details result, or None when there is no API key, no
\* place was found or a request failed
search_google_places(result) ==
    LET google_info == Dict([practice_locations |-> EmptyList, phone_number |-> None,
                             address |-> None, google_rating |-> None,
                             google_reviews |-> EmptyList])
    IN IF IsNone(result) THEN google_info
       ELSE LET g1 == Update(google_info,
                        Dict([address |-> Get(result, "formatted_address", None),
                              phone_number |-> Get(result, "formatted_phone_number", None),
                              google_rating |-> Get(result, "rating", None),
                              website |-> Get(result, "website", None),
                              business_hours |-> EmptyList]))
            IN IF Truthy(Get(result, "formatted_address", None))
               THEN Update(g1, Dict([practice_locations |-> List(<<
                        Dict([address |-> Get(result, "formatted_address", None),
                              phone |-> Get(result, "formatted_phone_number", None),
                              rating |-> Get(result, "rating", None),
                              source |-> GooglePlaces])>>)]))
               ELSE g1

search_medical_board ==
    Dict([license_number |-> None, credentials |-> EmptyList,
          board_certifications |-> EmptyList])

\* get_doctor_details(name, specialty) given what the four searches returned
get_doctor_details(name, specialty, npi_data, provider_data, google_data, license_data) ==
    LET doctor_info == Dict([name |-> name, specialty |-> specialty, address |-> None,
                             phone_number |-> None, license_number |-> None,
                             affiliated_insurance_networks |-> EmptyList,
                             services_offered |-> EmptyList, npi_data |-> EmptyDict,
                             practice_locations |-> EmptyList, credentials |-> EmptyList,
                             scraped_sources |-> EmptyList])
        Sourced(d, source) ==
            Update(d, Dict([scraped_sources |-> List(Append(d.v.scraped_sources.v, source))]))
        d1 == IF Truthy(npi_data)
              THEN Sourced(Update(doctor_info, Dict([npi_data |-> npi_data])), NPIRegistry)
              ELSE doctor_info
        d2 == IF Truthy(provider_data)
              THEN Sourced(Update(d1, provider_data), ProviderDirectories) ELSE d1
        d3 == IF Truthy(google_data)
              THEN Sourced(Update(d2, google_data), GooglePlaces) ELSE d2
        d4 == IF Truthy(license_data)
              THEN Sourced(Update(d3, license_data), MedicalBoard) ELSE d3
    IN d4

\* what the external sources answered to one search
Sources(npi_response, healthgrades_data, webmd_data, places_result) ==
    [npi_response |-> npi_response, healthgrades_data |-> healthgrades_data,
     webmd_data |-> webmd_data, places_result |-> places_result]

search_doctor_info(name, specialty, sources) ==
    get_doctor_details(name, specialty,
                       search_npi_registry(sources.npi_response),
                       search_provider_directories(sources.healthgrades_data,
                                                   sources.webmd_data),
                       search_google_places(sources.places_result),
                       search_medical_board)

(***************************************************************************)
(* verify_doctor: concurrent requests against the doctor_reports table     *)
(***************************************************************************)
MaxRequests == 2      \* requests handled in one behaviour
MaxClock == 1         \* seconds the wall clock may advance
HashModulus == 10000

Handlers == 1..MaxRequests

IntegrityError == Atom("IntegrityError")
OperationalError == Atom("OperationalError")

\* hash(str) depends on the interpreter's hash seed: two seeds, one under
\* which the two names differ modulo 10000 and one under which they collide
HashSeeds ==
    {(Str(S_JohnSmith) :> 420007) @@ (Str(S_JohnASmith) :> 1234)
        @@ (Str(S_JohnJohn) :> 77),
     (Str(S_JohnSmith) :> 420007) @@ (Str(S_JohnASmith) :> 90007)
        @@ (Str(S_JohnJohn) :> 77)}

\* f"VER_{now:%Y%m%d_%H%M%S}_{hash(fullName) % 10000:04d}": both parts have
\* a fixed width, so the identifier is the pair of second and residue
VerificationId(second, fullName) == <<"VER", second, hash_seed[fullName] % HashModulus>>

\* the DoctorReport row built from the seven outcomes (lines 674-704)
DoctorReport(verification_id, result) ==
    [verification_id |-> verification_id,
     full_name_input |-> result.fullName.input_field_a,
     full_name_scraped |-> result.fullName.scraped_data_field_a,
     full_name_scraped_from |-> result.fullName.scraped_from,
     full_name_matches |-> result.fullName.matches,
     specialty_input |-> result.specialty.input_field_a,
     specialty_scraped |-> result.specialty.scraped_data_field_a,
     specialty_scraped_from |-> result.specialty.scraped_from,
     specialty_matches |-> result.specialty.matches,
     address_input |-> result.address.input_field_a,
     address_scraped |-> result.address.scraped_data_field_a,
     address_scraped_from |-> result.address.scraped_from,
     address_matches |-> result.address.matches,
     phone_number_input |-> result.phoneNumber.input_field_a,
     phone_number_scraped |-> result.phoneNumber.scraped_data_field_a,
     phone_number_scraped_from |-> result.phoneNumber.scraped_from,
     phone_number_matches |-> result.phoneNumber.matches,
     license_number_input |-> result.licenseNumber.input_field_a,
     license_number_scraped |-> result.licenseNumber.scraped_data_field_a,
     license_number_scraped_from |-> result.licenseNumber.scraped_from,
     license_number_matches |-> result.licenseNumber.matches,
     insurance_networks_input |-> result.insuranceNetworks.input_field_a,
     insurance_networks_scraped |-> result.insuranceNetworks.scraped_data_field_a,
     insurance_networks_scraped_from |-> result.insuranceNetworks.scraped_from,
     insurance_networks_matches |-> result.insuranceNetworks.matches,
     services_offered_input |-> result.servicesOffered.input_field_a,
     services_offered_scraped |-> result.servicesOffered.scraped_data_field_a,
     services_offered_scraped_from |-> result.servicesOffered.scraped_from,
     services_offered_matches |-> result.servicesOffered.matches]

\* the VerificationResult returned with status 200 (lines 712-722)
VerificationResult(verification_id, timestamp, result) ==
    [status_code |-> 200, verification_id |-> verification_id, timestamp |-> timestamp,
     fullName |-> result.fullName, specialty |-> result.specialty,
     address |-> result.address, phoneNumber |-> result.phoneNumber,
     licenseNumber |-> result.licenseNumber,
     insuranceNetworks |-> result.insuranceNetworks,
     servicesOffered |-> result.servicesOffered]

\* HTTPException(status_code=500, detail=f"Verification failed: {str(e)}")
HTTPException(e) == [status_code |-> 500, detail |-> <<"Verification failed", e>>]

\* the unique index on doctor_reports.verification_id
UniqueViolation_Unenforced(row, table) == FALSE

UniqueViolation(row, table) ==
    \E stored \in table : stored.verification_id = row.verification_id

\* a handler that has not received its request
Waiting ==
    [pc |-> "waiting", request |-> None, verification_id |-> None,
     verification_result |-> None, db_report |-> None, e |-> None, response |-> None]

\* what the sources can answer
SvcSources ==
    {Sources(None, EmptyDict, EmptyDict, None),
     Sources(Dict([results |-> List(<<P_JohnSmith>>)]),
             Dict([phone_number |-> Str(S_Phone212Paren), address |-> None,
                   services_offered |-> List(<<Str(S_Surgery)>>)]),
             Dict([services_offered |-> List(<<Str(S_surgeryConsult)>>)]),
             Dict([formatted_address |-> Str(S_Addr100MainStreetFull),
                   formatted_phone_number |-> Str(S_Phone212Dash)]))}

SvcRequests ==
    {Request(n, Str(S_Surgery), OptionalFields("a").address,
             OptionalFields("a").phoneNumber, OptionalFields("a").licenseNumber,
             OptionalFields("a").insuranceNetworks, OptionalFields("a").servicesOffered) :
        n \in {Str(S_JohnSmith), Str(S_JohnASmith)}}

ServiceInit ==
    /\ now = 0
    /\ hash_seed \in HashSeeds
    /\ doctor_reports = {}
    /\ handler = [h \in Handlers |-> Waiting]

\* the wall clock reaches the next second
Tick ==
    /\ now < MaxClock
    /\ now' = now + 1
    /\ UNCHANGED <<hash_seed, dbVars, doctor_reports, handler>>

\* lines 656-707: the identifier is derived, the sources are searched, the
\* request is reconciled and the row is added to the session
Reconcile(h) ==
    /\ handler[h].pc = "waiting"
    /\ \A g \in Handlers : g < h => handler[g].pc # "waiting"
    /\ \E req \in SvcRequests, sources \in SvcSources :
          LET verification_id == VerificationId(now, req.fullName)
              scraped == search_doctor_info(req.fullName, req.specialty, sources)
          IN \E result \in analyze_verification(req, scraped) :
                handler' = [handler EXCEPT ![h] =
                              [pc |-> "added", request |-> req,
                               verification_id |-> verification_id,
                               verification_result |-> result,
                               db_report |-> DoctorReport(verification_id, result),
                               e |-> None, response |-> None]]
    /\ UNCHANGED <<now, hash_seed, dbVars, doctor_reports>>

\* lines 727-731: the except branch; rollback discards what the session has
\* not committed and leaves the table as it is
Fail(h, e) ==
    [handler[h] EXCEPT !.pc = "done", !.e = e, !.db_report = None,
                       !.response = HTTPException(e)]

\* line 708, db.commit() inserts the row; uuid4 gives it a fresh report_id
Commit(h) ==
    /\ handler[h].pc = "added"
    /\ ~UniqueViolation(handler[h].db_report, doctor_reports)
    /\ doctor_reports' = doctor_reports \cup
                            {[report_id |-> h] @@ handler[h].db_report}
    /\ handler' = [handler EXCEPT ![h].pc = "committed"]
    /\ UNCHANGED <<now, hash_seed, dbVars>>

\* line 708, db.commit() violates the unique index
CommitConflict(h) ==
    /\ handler[h].pc = "added"
    /\ UniqueViolation(handler[h].db_report, doctor_reports)
    /\ handler' = [handler EXCEPT ![h] = Fail(h, IntegrityError)]
    /\ UNCHANGED <<now, hash_seed, dbVars, doctor_reports>>

\* line 708, db.commit() fails because the database cannot be reached
CommitFault(h) ==
    /\ handler[h].pc = "added"
    /\ handler' = [handler EXCEPT ![h] = Fail(h, OperationalError)]
    /\ UNCHANGED <<now, hash_seed, dbVars, doctor_reports>>

\* lines 709-725: db.refresh() reads the row back and the result is returned
Respond(h) ==
    /\ handler[h].pc = "committed"
    /\ handler' = [handler EXCEPT ![h].pc = "done",
                      ![h].response = VerificationResult(handler[h].verification_id, now,
                                                         handler[h].verification_result)]
    /\ UNCHANGED <<now, hash_seed, dbVars, doctor_reports>>

\* line 709, db.refresh() fails because the database cannot be reached
RefreshFault(h) ==
    /\ handler[h].pc = "committed"
    /\ handler' = [handler EXCEPT ![h] = Fail(h, OperationalError)]
    /\ UNCHANGED <<now, hash_seed, dbVars, doctor_reports>>

ServiceNext ==
    \/ Tick /\ UNCHANGED <<simVars, anVars>>
    \/ \E h \in Handlers : Reconcile(h) /\ UNCHANGED <<simVars, anVars>>
    \/ \E h \in Handlers : Commit(h) /\ UNCHANGED <<simVars, anVars>>
    \/ \E h \in Handlers : CommitConflict(h) /\ UNCHANGED <<simVars, anVars>>
    \/ \E h \in Handlers : CommitFault(h) /\ UNCHANGED <<simVars, anVars>>
    \/ \E h \in Handlers : Respond(h) /\ UNCHANGED <<simVars, anVars>>
    \/ \E h \in Handlers : RefreshFault(h) /\ UNCHANGED <<simVars, anVars>>

SpecServiceInit == ServiceInit /\ SimIdle /\ AnIdle /\ DbIdle

SpecService == SpecServiceInit /\ [][ServiceNext]_vars

(***************************************************************************)
(* DoctorInfoScraper under failing sources                                 *)
(***************************************************************************)
\* an exception leaving a call
Raised(e) == [t |-> "raised", v |-> e]
IsRaised(x) == x.t = "raised"

\* try: x except Exception: (log) and go on with fallback
Caught_Reraised(x, fallback) == x

Caught(x, fallback) == IF IsRaised(x) THEN fallback ELSE x

\* what session.get(...) gives: an exception, or a response with its status
\* and what response.json() / BeautifulSoup make of its content
Timeout == Raised("requests.Timeout")
ConnectionError == Raised("requests.ConnectionError")
Response(status_code, content) == [t |-> "response", status_code |-> status_code,
                                   content |-> content]

\* _search_npi_registry (lines 88-153): the body of the try block returns the
\* providers of a 200 response; every other path ends at `return {}`
NpiRegistryLookup(reply) ==
    Caught(IF IsRaised(reply) THEN reply
           ELSE IF reply.status_code = 200
           THEN IF IsRaised(reply.content) THEN reply.content
                ELSE search_npi_registry(reply.content)
           ELSE EmptyDict,
           EmptyDict)

\* _search_healthgrades (lines 186-222): content is the phone and address of
\* the first provider card, or None when the page has no card
HealthgradesLookup(reply, specialty) ==
    Caught(IF IsRaised(reply) THEN reply
           ELSE IF reply.status_code = 200 /\ ~IsNone(reply.content)
           THEN Dict([phone_number |-> reply.content.v.phone_number,
                      address |-> reply.content.v.address,
                      services_offered |-> List(<<specialty>>)])
           ELSE EmptyDict,
           EmptyDict)

\* _search_webmd (lines 224-253): content is the list of services of the
\* first listing, or None when the page has no listing
WebmdLookup(reply, specialty) ==
    Caught(IF IsRaised(reply) THEN reply
           ELSE IF reply.status_code = 200 /\ ~IsNone(reply.content)
           THEN Dict([services_offered |-> IF Truthy(reply.content) THEN reply.content
                                           ELSE List(<<specialty>>)])
           ELSE EmptyDict,
           EmptyDict)

\* _search_provider_directories (lines 155-184): the two searches run inside
\* one try block whose except leaves provider_info as far as it was merged
ProviderDirectoriesLookup(healthgrades_reply, webmd_reply, specialty) ==
    LET healthgrades_data == HealthgradesLookup(healthgrades_reply, specialty)
        webmd_data == WebmdLookup(webmd_reply, specialty)
    IN Caught(IF IsRaised(healthgrades_data) THEN healthgrades_data
              ELSE IF IsRaised(webmd_data) THEN webmd_data
              ELSE search_provider_directories(healthgrades_data, webmd_data),
              IF IsRaised(healthgrades_data)
              THEN search_provider_directories(EmptyDict, EmptyDict)
              ELSE search_provider_directories(healthgrades_data, EmptyDict))

\* _search_google_places (lines 255-358): without an API key no request is
\* made; content is the Place Details result, or None when the text search or
\* the details did not answer OK
GooglePlacesLookup(api_key, reply) ==
    Caught(IF ~Truthy(api_key) THEN search_google_places(None)
           ELSE IF IsRaised(reply) THEN reply
           ELSE IF reply.status_code = 200
           THEN IF IsRaised(reply.content) THEN reply.content
                ELSE search_google_places(reply.content)
           ELSE search_google_places(None),
           search_google_places(None))

\* search_doctor_info(name, specialty) (lines 389-401) when the sources
\* answer with the given replies: an exception leaving one of the searches
\* leaves get_doctor_details
ScrapeDoctorInfo(name, specialty, replies) ==
    LET npi_data == NpiRegistryLookup(replies.npi)
        provider_data == ProviderDirectoriesLookup(replies.healthgrades, replies.webmd,
                                                   specialty)
        google_data == GooglePlacesLookup(replies.api_key, replies.places)
        license_data == search_medical_board
    IN IF IsRaised(npi_data) THEN npi_data
       ELSE IF IsRaised(provider_data) THEN provider_data
       ELSE IF IsRaised(google_data) THEN google_data
       ELSE get_doctor_details(name, specialty, npi_data, provider_data, google_data,
                               license_data)

JSONDecodeError == Raised("json.JSONDecodeError")

NpiReplies ==
    {Timeout, ConnectionError, Response(503, None), Response(200, JSONDecodeError),
     Response(200, EmptyDict), Response(200, Dict([results |-> EmptyList])),
     Response(200, Dict([results |-> List(<<P_JohnSmith>>)]))}

HealthgradesReplies ==
    {Timeout, Response(404, None), Response(200, None),
     Response(200, Dict([phone_number |-> None, address |-> None])),
     Response(200, Dict([phone_number |-> Str(S_Phone212Paren),
                         address |-> Str(S_Addr100MainSt)]))}

WebmdReplies ==
    {ConnectionError, Response(200, None), Response(200, EmptyList),
     Response(200, List(<<Str(S_surgeryConsult)>>))}

PlacesReplies ==
    {Timeout, Response(403, None), Response(200, JSONDecodeError), Response(200, None),
     Response(200, EmptyDict),
     Response(200, Dict([formatted_address |-> Str(S_Addr100MainStreetFull),
                         formatted_phone_number |-> Str(S_Phone212Dash)]))}

ScraperInit ==
    /\ request \in {Request(Str(fullName), Str(S_Surgery), None, None, None, None, None) :
                       fullName \in {S_JohnSmith, S_JohnASmith}}
    /\ handler \in [npi : NpiReplies, healthgrades : HealthgradesReplies,
                    webmd : WebmdReplies, api_key : {None, Str(S_XY99)},
                    places : PlacesReplies]
    /\ scraped_data = None
    /\ best_provider = None
    /\ scores = <<>>
    /\ verification_result = None
    /\ an_pc = "off"
    /\ now = 0
    /\ hash_seed = <<>>
    /\ doctor_reports = {}

\* one call of search_doctor_info(request.fullName, request.specialty)
SearchDoctorInfo ==
    /\ an_pc = "off"
    /\ scraped_data' = ScrapeDoctorInfo(request.fullName, request.specialty, handler)
    /\ an_pc' = "searched"
    /\ UNCHANGED <<request, best_provider, scores, verification_result, simVars, svcVars, dbVars>>

\* verify_doctor goes on to analyze_verification(request, scraped_data)
\* (doctor_router.py, line 671)
AnalyzeSearched ==
    /\ an_pc = "searched"
    /\ ~IsRaised(scraped_data)
    /\ best_provider' = get_best_matching_provider(request, scraped_data)
    /\ verification_result' \in analyze_verification(request, scraped_data)
    /\ an_pc' = "analyzed"
    /\ UNCHANGED <<request, scraped_data, scores, simVars, svcVars, dbVars>>

ScraperNext ==
    \/ SearchDoctorInfo
    \/ AnalyzeSearched

SpecScraperInit == ScraperInit /\ SimIdle /\ DbIdle

SpecScraper == SpecScraperInit /\ [][ScraperNext]_vars

(***************************************************************************)
(* Intake: what the verify endpoint and the PDF endpoint let through       *)
(***************************************************************************)
\* SPECIALTIES, lines 54-63
SPECIALTIES ==
    <<<<"A","l","l","e","r","g","y"," ","a","n","d"," ","I","m","m","u","n","o","l","o","g","y">>,
      <<"A","n","e","s","t","h","e","s","i","o","l","o","g","y">>,
      <<"C","a","r","d","i","o","l","o","g","y">>,
      <<"D","e","r","m","a","t","o","l","o","g","y">>,
      <<"E","m","e","r","g","e","n","c","y"," ","M","e","d","i","c","i","n","e">>,
      <<"E","n","d","o","c","r","i","n","o","l","o","g","y">>,
      <<"F","a","m","i","l","y"," ","M","e","d","i","c","i","n","e">>,
      <<"G","a","s","t","r","o","e","n","t","e","r","o","l","o","g","y">>,
      <<"G","e","n","e","r","a","l"," ","S","u","r","g","e","r","y">>,
      <<"G","e","r","i","a","t","r","i","c"," ","M","e","d","i","c","i","n","e">>,
      <<"H","e","m","a","t","o","l","o","g","y">>,
      <<"I","n","f","e","c","t","i","o","u","s"," ","D","i","s","e","a","s","e">>,
      <<"I","n","t","e","r","n","a","l"," ","M","e","d","i","c","i","n","e">>,
      <<"N","e","p","h","r","o","l","o","g","y">>,
      <<"N","e","u","r","o","l","o","g","y">>,
      <<"O","b","s","t","e","t","r","i","c","s"," ","a","n","d"," ","G","y","n","e","c","o","l","o","g","y">>,
      <<"O","n","c","o","l","o","g","y">>,
      <<"O","p","h","t","h","a","l","m","o","l","o","g","y">>,
      <<"O","r","t","h","o","p","e","d","i","c"," ","S","u","r","g","e","r","y">>,
      <<"O","t","o","l","a","r","y","n","g","o","l","o","g","y"," ","(","E","N","T",")">>,
      <<"P","a","t","h","o","l","o","g","y">>,
      <<"P","e","d","i","a","t","r","i","c","s">>,
      <<"P","h","y","s","i","c","a","l"," ","M","e","d","i","c","i","n","e"," ","a","n","d"," ","R","e","h","a","b","i","l","i","t","a","t","i","o","n">>,
      <<"P","l","a","s","t","i","c"," ","S","u","r","g","e","r","y">>,
      <<"P","s","y","c","h","i","a","t","r","y">>,
      <<"P","u","l","m","o","n","o","l","o","g","y">>,
      <<"R","a","d","i","o","l","o","g","y">>,
      <<"R","h","e","u","m","a","t","o","l","o","g","y">>,
      <<"S","p","o","r","t","s"," ","M","e","d","i","c","i","n","e">>,
      <<"U","r","o","l","o","g","y">>,
      <<"V","a","s","c","u","l","a","r"," ","S","u","r","g","e","r","y">>>>
S_JohnSmithPadded == <<" ","J","o","h","n"," ","S","m","i","t","h"," ">>
S_Astrology == <<"A","s","t","r","o","l","o","g","y">>
S_C == <<"C">>
S_PhonePlus == <<"+","1"," ","2","1","2","-","5","5","5","-","0","1","9","9">>
S_PhoneExt == <<"2","1","2","-","5","5","5","-","0","1","9","9"," ","x","2">>
S_Dashes == <<"-","-","-">>

\* len(s.split()): the number of maximal runs of non-whitespace characters
SplitLen(s) ==
    Cardinality({i \in 1..Len(s) :
                    s[i] \notin Whitespace /\ (i = 1 \/ s[i - 1] \in Whitespace)})

\* schemas/doctor_router.py validate_phone raises ValueError: the value is
\* truthy and what is left after the five replace() calls is not isdigit()
validate_phone_AcceptsAll(v) == FALSE

validate_phone(v) ==
    /\ Truthy(v)
    /\ ~IsDigit(RemoveChar(RemoveChar(RemoveChar(RemoveChar(RemoveChar(
            v.v, "-"), "("), ")"), " "), "+"))

\* schemas/doctor_router.py validate_name raises ValueError: fewer than two
\* tokens
validate_name_AcceptsAll(v) == FALSE

validate_name(v) == SplitLen(Strip(v.v)) < 2

\* one entry of an error list
Violated(constraint, broken) == IF broken THEN {constraint} ELSE {}

\* the constraints of DoctorVerificationRequest a payload violates: a required
\* str with its length limits is checked before the field's validator runs,
\* and the validator of an optional field is not run on None
ValidationError(payload) ==
    Violated("fullName", \/ ~IsStr(payload.fullName)
                         \/ Len(payload.fullName.v) < 2
                         \/ Len(payload.fullName.v) > 100
                         \/ validate_name(payload.fullName))
    \cup
    Violated("specialty", \/ ~IsStr(payload.specialty)
                          \/ Len(payload.specialty.v) < 2
                          \/ Len(payload.specialty.v) > 50)
    \cup
    Violated("phoneNumber", /\ ~IsNone(payload.phoneNumber)
                            /\ \/ ~IsStr(payload.phoneNumber)
                               \/ validate_phone(payload.phoneNumber))
    \cup
    Violated("address", /\ ~IsNone(payload.address)
                        /\ \/ ~IsStr(payload.address)
                           \/ Len(payload.address.v) > 200)
    \cup
    Violated("licenseNumber", /\ ~IsNone(payload.licenseNumber)
                              /\ \/ ~IsStr(payload.licenseNumber)
                                 \/ Len(payload.licenseNumber.v) > 50)
    \cup
    Violated("servicesOffered", /\ ~IsNone(payload.servicesOffered)
                                /\ \/ ~IsStr(payload.servicesOffered)
                                   \/ Len(payload.servicesOffered.v) > 500)

\* the DoctorVerificationRequest built from a valid payload: validate_name
\* returns v.strip()
DoctorVerificationRequest(payload) ==
    [payload EXCEPT !.fullName = Str(Strip(payload.fullName.v))]

\* validate_pdf_content(provider_info): the list of errors, as a set
validate_pdf_content(provider_info) ==
    LET full_name == Get(Dict(provider_info), "fullName", EmptyStr)
        specialty == Get(Dict(provider_info), "specialty", EmptyStr)
    IN Violated("No valid doctor name found in PDF",
                ~Truthy(full_name) \/ Len(Strip(full_name.v)) < 3)
       \cup
       Violated("No valid medical specialty found in PDF",
                ~Truthy(specialty) \/ Len(Strip(specialty.v)) < 2)
       \cup
       Violated("Doctor name must include both first and last name",
                Truthy(full_name) /\ SplitLen(Strip(full_name.v)) < 2)
       \cup
       Violated("Specialty is not recognized as a valid medical specialty",
                /\ Truthy(specialty)
                /\ ~\E i \in 1..Len(SPECIALTIES) :
                       \/ Contains(Lower(specialty.v), Lower(SPECIALTIES[i]))
                       \/ Contains(Lower(SPECIALTIES[i]), Lower(specialty.v)))

\* f"VER_PDF_{now:%Y%m%d_%H%M%S}_{hash(fullName) % 10000:04d}" (line 874)
PdfVerificationId(second, fullName) ==
    <<"VER_PDF", second, hash_seed[fullName] % HashModulus>>

\* a request body of the verify endpoint: the optional fields other than the
\* phone number are left out
JsonBody(fullName, specialty, phoneNumber) ==
    Request(fullName, specialty, None, phoneNumber, None, None, None)

\* what parse_provider_info returns: every field is a str, "" when not found
ProviderInfo(fullName, specialty, phoneNumber) ==
    Request(fullName, specialty, EmptyStr, phoneNumber, EmptyStr, None, EmptyStr)

IntakeNames ==
    {EmptyStr, Str(S_Blank), Str(S_John), Str(S_JohnJohn), Str(S_JohnSmith),
     Str(S_JohnSmithPadded), Str(S_JohnASmith)}

IntakeSpecialties == {EmptyStr, Str(S_C), Str(S_cardio), Str(S_Cardiology), Str(S_Astrology)}

IntakePhones ==
    {EmptyStr, Str(S_Space), Str(S_Dashes), Str(S_Phone212Paren), Str(S_PhonePlus),
     Str(S_PhoneExt)}

\* a request that has arrived at an endpoint and has not been looked at
Received(endpoint, payload) ==
    [pc |-> "received", endpoint |-> endpoint, payload |-> payload,
     status_code |-> None, detail |-> {}, has_verification |-> None,
     saved_to_database |-> None, report_id |-> None]

IntakeInit ==
    /\ now = 0
    /\ hash_seed \in HashSeeds
    /\ doctor_reports = {}
    /\ \E fullName \in IntakeNames \cup {None}, specialty \in IntakeSpecialties,
          phoneNumber \in IntakePhones \cup {None} :
          handler \in {Received("verify", JsonBody(fullName, specialty, phoneNumber)),
                       Received("pdf", ProviderInfo(IF IsNone(fullName) THEN EmptyStr ELSE fullName,
                                                    specialty,
                                                    IF IsNone(phoneNumber) THEN EmptyStr
                                                    ELSE phoneNumber))}
    /\ request = None
    /\ scraped_data = None
    /\ best_provider = None
    /\ scores = <<>>
    /\ verification_result = None
    /\ an_pc = "off"

\* the handler's search, reconciliation and commit (lines 656-725 and
\* 872-935): the commit either stores the row or fails
Verify(req, verification_id, stored) ==
    \E sources \in SvcSources :
       LET scraped == search_doctor_info(req.fullName, req.specialty, sources)
       IN /\ request' = req
          /\ scraped_data' = scraped
          /\ best_provider' = get_best_matching_provider(req, scraped)
          /\ \E result \in analyze_verification(req, scraped) :
                /\ verification_result' = result
                /\ doctor_reports' =
                      IF stored
                      THEN doctor_reports \cup
                              {[report_id |-> 1] @@ DoctorReport(verification_id, result)}
                      ELSE doctor_reports
          /\ an_pc' = "analyzed"

\* the request never reaches the handler's search
Rejected(status_code, detail) ==
    /\ handler' = [handler EXCEPT !.pc = "done", !.status_code = status_code,
                                  !.detail = detail]
    /\ UNCHANGED <<request, scraped_data, best_provider, verification_result, an_pc,
                   doctor_reports>>

\* POST verify: the body is validated against DoctorVerificationRequest
\* before verify_doctor is called; a body that fails is answered with 422
VerifyDoctor ==
    /\ handler.pc = "received"
    /\ handler.endpoint = "verify"
    /\ IF ValidationError(handler.payload) # {}
       THEN Rejected(422, ValidationError(handler.payload))
       ELSE LET req == DoctorVerificationRequest(handler.payload)
            IN \E stored \in BOOLEAN :
                  /\ Verify(req, VerificationId(now, req.fullName), stored)
                  /\ handler' = [handler EXCEPT
                                    !.pc = "done",
                                    !.status_code = IF stored THEN 200 ELSE 500,
                                    !.saved_to_database = stored]
    /\ UNCHANGED <<now, hash_seed, dbVars, scores, simVars>>

\* POST extract-pdf after parse_provider_info (lines 840-962): 400 on
\* validate_pdf_content errors, 500 when DoctorVerificationRequest cannot be
\* built, else the verification runs and the answer is 200 whether or not
\* the row was stored. When db.commit() fails the inner except rolls back and
\* goes on: verification_results is still None, db_report is the object that
\* was added, and its report_id, which the INSERT would have set, is None, so
\* the response has saved_to_database = True and report_id = str(None)
ExtractProviderFromPdf ==
    /\ handler.pc = "received"
    /\ handler.endpoint = "pdf"
    /\ IF validate_pdf_content(handler.payload) # {}
       THEN Rejected(400, validate_pdf_content(handler.payload))
       ELSE IF ValidationError([handler.payload EXCEPT !.insuranceNetworks = EmptyList]) # {}
       THEN Rejected(500, ValidationError([handler.payload EXCEPT
                                              !.insuranceNetworks = EmptyList]))
       ELSE LET req == DoctorVerificationRequest([handler.payload EXCEPT
                                                    !.insuranceNetworks = EmptyList])
            IN IF Truthy(req.fullName) /\ Truthy(req.specialty)
               THEN \E stored \in BOOLEAN :
                       /\ Verify(req, PdfVerificationId(now, req.fullName), stored)
                       /\ handler' = [handler EXCEPT
                                         !.pc = "done", !.status_code = 200,
                                         !.has_verification = stored,
                                         !.saved_to_database = TRUE,
                                         !.report_id = IF stored
                                                       THEN [t |-> "uuid", v |-> PdfVerificationId(now, req.fullName)]
                                                       ELSE Str(S_None)]
               ELSE /\ handler' = [handler EXCEPT !.pc = "done", !.status_code = 200,
                                                  !.has_verification = FALSE,
                                                  !.saved_to_database = FALSE]
                    /\ UNCHANGED <<request, scraped_data, best_provider,
                                   verification_result, an_pc, doctor_reports>>
    /\ UNCHANGED <<now, hash_seed, dbVars, scores, simVars>>

IntakeNext ==
    \/ VerifyDoctor
    \/ ExtractProviderFromPdf

SpecIntakeInit == IntakeInit /\ SimIdle /\ DbIdle

SpecIntake == SpecIntakeInit /\ [][IntakeNext]_vars

(***************************************************************************)
(* The API's operations on the doctor_reports table                        *)
(***************************************************************************)
MaxReports == 2       \* rows the table may hold

S_full_name == <<"f","u","l","l","_","n","a","m","e">>
S_specialty == <<"s","p","e","c","i","a","l","t","y">>
S_created_at == <<"c","r","e","a","t","e","d","_","a","t">>
S_ascend == <<"a","s","c","e","n","d">>
S_descend == <<"d","e","s","c","e","n","d">>
S_SMITHPadded == <<" ","S","M","I","T","H">>
S_aDot == <<"a",".">>
S_jUnderscoreHn == <<"j","_","h","n">>
S_SURG == <<"S","U","R","G">>

\* lower(column) LIKE pattern in PostgreSQL: "%" stands for any run of
\* characters, "_" for any one character, and a backslash takes the next
\* character of the pattern literally
RECURSIVE Like(_, _)
Like(s, pattern) ==
    IF pattern = <<>> THEN s = <<>>
    ELSE IF Head(pattern) = "%"
    THEN Like(s, Tail(pattern)) \/ (s # <<>> /\ Like(Tail(s), pattern))
    ELSE IF Head(pattern) = "_"
    THEN s # <<>> /\ Like(Tail(s), Tail(pattern))
    ELSE IF Head(pattern) = "\\" /\ Len(pattern) > 1
    THEN s # <<>> /\ Head(s) = pattern[2] /\ Like(Tail(s), Tail(Tail(pattern)))
    ELSE s # <<>> /\ Head(s) = Head(pattern) /\ Like(Tail(s), Tail(pattern))

\* a LIKE in which every character of the pattern's middle is literal
ColumnContains_Literal(column, other) ==
    ~IsNone(column) /\ Contains(Lower(column.v), Lower(other))

\* func.lower(column).contains(func.lower(other)) renders
\* lower(column) LIKE '%' || lower(other) || '%'; NULL when the column is
\* NULL, and a NULL operand of or_ selects the row only if the other is true
ColumnContains(column, other) ==
    ~IsNone(column) /\ Like(Lower(column.v), <<"%">> \o Lower(other) \o <<"%">>)

\* the filter of lines 1231-1248 on one pair of columns
Filter(value, input, scraped) ==
    Truthy(value) /\ Strip(value.v) # <<>>
    => \/ ColumnContains(input, Strip(value.v))
       \/ ColumnContains(scraped, Strip(value.v))

\* func.coalesce(input, scraped, '')
Coalesce(input, scraped) ==
    IF ~IsNone(input) THEN input.v ELSE IF ~IsNone(scraped) THEN scraped.v ELSE <<>>

\* the characters in the order of their code points
CodePoints == <<" ", "%", "(", ")", "-", ".", "/">>
              \o <<"0", "1", "2", "3", "4", "5", "6", "7", "8", "9">>
              \o UpperLetters \o <<"\\", "_">> \o LowerLetters

CodePoint(c) == CHOOSE i \in 1..Len(CodePoints) : CodePoints[i] = c

\* a < b for two strings compared code point by code point
RECURSIVE StrLess(_, _)
StrLess(a, b) ==
    IF b = <<>> THEN FALSE
    ELSE IF a = <<>> THEN TRUE
    ELSE IF Head(a) = Head(b) THEN StrLess(Tail(a), Tail(b))
    ELSE CodePoint(Head(a)) < CodePoint(Head(b))

\* sort_field_map.get(sort_field, DoctorReport.created_at): x sorts before y
SortsBefore(sort_field, x, y) ==
    IF sort_field = Str(S_full_name)
    THEN StrLess(Coalesce(x.full_name_input, x.full_name_scraped),
                 Coalesce(y.full_name_input, y.full_name_scraped))
    ELSE IF sort_field = Str(S_specialty)
    THEN StrLess(Coalesce(x.specialty_input, x.specialty_scraped),
                 Coalesce(y.specialty_input, y.specialty_scraped))
    ELSE x.created_at < y.created_at

\* query.order_by(sort_expr): the orders the database may return the rows
\* in; rows with equal keys come in any order
OrderBy(rows, sort_field, sort_order) ==
    LET ascend == Truthy(sort_order) /\ Lower(sort_order.v) = S_ascend
    IN {q \in Orderings(rows) :
           \A i, j \in 1..Len(q) :
              i < j => IF ascend THEN ~SortsBefore(sort_field, q[j], q[i])
                       ELSE ~SortsBefore(sort_field, q[i], q[j])}

\* the parameters of GET /reports
Query(skip, limit, full_name, specialty, sort_field, sort_order) ==
    [skip |-> skip, limit |-> limit, full_name |-> full_name, specialty |-> specialty,
     sort_field |-> sort_field, sort_order |-> sort_order]

\* HTTPException(status_code=400, detail=...)
BadRequest(detail) == [status_code |-> 400, detail |-> detail]

\* get_reports (lines 1197-1325): the responses it can return on a table
get_reports(q, table) ==
    IF q.skip < 0 THEN {BadRequest("Skip must be non-negative")}
    ELSE IF q.limit <= 0 \/ q.limit > 100
    THEN {BadRequest("Limit must be between 1 and 100")}
    ELSE LET query == {row \in table :
                          /\ Filter(q.full_name, row.full_name_input, row.full_name_scraped)
                          /\ Filter(q.specialty, row.specialty_input, row.specialty_scraped)}
             total_count == Cardinality(query)
             last == IF q.skip + q.limit < total_count THEN q.skip + q.limit
                     ELSE total_count
         IN {[status_code |-> 200,
              reports |-> IF q.skip < last THEN SubSeq(reports, q.skip + 1, last) ELSE <<>>,
              total_count |-> total_count, skip |-> q.skip, limit |-> q.limit,
              has_next |-> q.skip + q.limit < total_count,
              has_previous |-> q.skip > 0] :
                reports \in OrderBy(query, q.sort_field, q.sort_order)}

\* a commit that overwrites the stored row of the same verification_id
CommitRow_Upsert(row, table) ==
    {stored \in table : stored.verification_id # row.verification_id} \cup {row}

\* db.add(db_report); db.commit(): the table afterwards. The unique index on
\* verification_id refuses a second row of the same identifier
CommitRow(row, table) ==
    IF UniqueViolation(row, table) THEN table ELSE table \cup {row}

\* the row as the database completes it: created_at and updated_at from the
\* server's now(), report_id from uuid4, a value no other row has and that
\* nothing reads, here the one that goes with the row's unique identifier
StoredRow(db_report) ==
    [report_id |-> <<"uuid4", db_report.verification_id>>, created_at |-> now,
     updated_at |-> now] @@ db_report

\* the last operation the API served, with what it was asked and answered
Served(operation, asked, response) ==
    [operation |-> operation, asked |-> asked, response |-> response]

ReportsInit ==
    /\ now = 0
    /\ hash_seed \in HashSeeds
    /\ doctor_reports = {}
    /\ handler = Served("none", None, None)

\* the sources answer every search alike: the columns get_reports reads are
\* the names and specialties, which the bag takes from the request
ReportSources ==
    {Sources(None,
             Dict([phone_number |-> Str(S_Phone212Paren), address |-> None,
                   services_offered |-> List(<<Str(S_Surgery)>>)]),
             EmptyDict, None)}

\* what the search and the reconciliation can make of each request
Reconciled ==
    [req \in SvcRequests |->
        UNION {analyze_verification(
                  req, search_doctor_info(req.fullName, req.specialty, sources)) :
               sources \in ReportSources}]

\* the search, the reconciliation and the commit of both storing endpoints
StoreReport(operation, verification_id, req) ==
    /\ Cardinality(doctor_reports) < MaxReports
    /\ \E reachable \in BOOLEAN :
          \E result \in Reconciled[req] :
             LET row == StoredRow(DoctorReport(verification_id, result))
                 table == IF reachable THEN CommitRow(row, doctor_reports)
                          ELSE doctor_reports
             IN /\ doctor_reports' = table
                /\ handler' = Served(operation, req.fullName,
                                     [verification_id |-> verification_id,
                                      stored |-> row \in table])
    /\ UNCHANGED <<now, hash_seed, dbVars>>

\* POST /verify (lines 651-731)
PostVerify ==
    \E req \in SvcRequests :
       StoreReport("verify_doctor", VerificationId(now, req.fullName), req)

\* POST /extract-pdf on a PDF that parses to a valid request (lines 823-962)
PostExtractPdf ==
    \E req \in SvcRequests :
       StoreReport("extract_provider_from_pdf", PdfVerificationId(now, req.fullName), req)

\* POST /search (lines 733-784): no session is requested
PostSearch ==
    /\ \E req \in SvcRequests, sources \in ReportSources :
          LET search_results == search_doctor_info(req.fullName, req.specialty, sources)
          IN handler' = Served("search_doctor", req.fullName,
                               [status_code |-> 200,
                                sources_used |-> Get(search_results, "scraped_sources",
                                                     EmptyList)])
    /\ UNCHANGED <<now, hash_seed, dbVars, doctor_reports>>

\* GET /health (lines 1173-1195): the registry is probed, no session is used
GetHealth ==
    /\ \E status \in {"healthy", "degraded"} :
          handler' = Served("health_check", None, [status |-> status])
    /\ UNCHANGED <<now, hash_seed, dbVars, doctor_reports>>


\* the queries asked: the paging parameters on the unfiltered table, and the
\* filters and sort fields on one page that holds every row
ReportQueries ==
    {Query(skip, limit, None, None, Str(S_created_at), Str(S_descend)) :
        skip \in -1..(MaxReports - 1), limit \in {0, 1, 2, 101}}
    \cup
    {Query(0, 100, full_name, None, Str(S_full_name), Str(S_ascend)) :
        full_name \in {Str(S_Blank), Str(S_SMITHPadded), Str(S_aDot),
                       Str(S_jUnderscoreHn)}}
    \cup
    {Query(0, 100, None, Str(S_SURG), Str(S_specialty), Str(S_descend))}

\* GET /reports
GetReports ==
    /\ \E q \in ReportQueries :
          \E response \in get_reports(q, doctor_reports) :
             handler' = Served("get_reports", q, response)
    /\ UNCHANGED <<now, hash_seed, dbVars, doctor_reports>>

ReportsNext ==
    \/ (PostVerify /\ UNCHANGED <<simVars, anVars>>)
    \/ (PostExtractPdf /\ UNCHANGED <<simVars, anVars>>)
    \/ (PostSearch /\ UNCHANGED <<simVars, anVars>>)
    \/ (GetHealth /\ UNCHANGED <<simVars, anVars>>)
    \/ (GetReports /\ UNCHANGED <<simVars, anVars>>)
    \/ (Tick /\ UNCHANGED <<simVars, anVars>>)

SpecReportsInit == ReportsInit /\ SimIdle /\ AnIdle /\ DbIdle

SpecReports == SpecReportsInit /\ [][ReportsNext]_vars

(***************************************************************************)
(* dependencies.get_db: the tracked session of each request                *)
(***************************************************************************)
MaxThreads == 2       \* worker threads that run the dependency

ThreadIdents == 1..MaxThreads

\* f"conn_{threading.get_ident()}_{time.time()}": the text is determined by,
\* and determines, the pair of the thread's ident and the clock's reading
ConnectionId(ident, time) == <<ident, time>>

\* d[key] = value and del d[key] on a dict
DictSet(d, key, value) ==
    [k \in DOMAIN d \cup {key} |-> IF k = key THEN value ELSE d[k]]

DictDel(d, key) == [k \in DOMAIN d \ {key} |-> d[k]]

Generator(pc, connection_id, db) ==
    [pc |-> pc, connection_id |-> connection_id, db |-> db, exc |-> "none"]

GetDbInit ==
    /\ now = 0
    /\ hash_seed = <<>>
    /\ doctor_reports = {}
    /\ handler = <<>>
    /\ active_connections = <<>>
    /\ generators = [r \in Handlers |-> Generator("idle", <<>>, "unbound")]
    /\ stale_connections = {}

\* lines 15-23: the id is built and the entry is written under the lock
Track(r) ==
    /\ generators[r].pc = "idle"
    /\ \E ident \in ThreadIdents :
          LET connection_id == ConnectionId(ident, now)
          IN /\ active_connections' =
                   DictSet(active_connections, connection_id,
                           [timestamp |-> now, thread |-> ident])
             /\ generators' = [generators EXCEPT
                                  ![r] = Generator("tracked", connection_id, "unbound")]
    /\ UNCHANGED <<now, hash_seed, doctor_reports, handler, stale_connections>>

\* line 25, db = SessionLocal(), then the yield of line 27
CreateSession(r) ==
    /\ generators[r].pc = "tracked"
    /\ generators' = [generators EXCEPT ![r].pc = "yielded", ![r].db = "open"]
    /\ UNCHANGED <<now, hash_seed, doctor_reports, handler,
                   active_connections, stale_connections>>

\* line 25 raises: it stands before the try, so the exception leaves the
\* generator and nothing of lines 26-40 runs
CreateSessionFault(r) ==
    /\ generators[r].pc = "tracked"
    /\ generators' = [generators EXCEPT ![r].pc = "ended", ![r].exc = "SessionLocal"]
    /\ UNCHANGED <<now, hash_seed, doctor_reports, handler,
                   active_connections, stale_connections>>

\* the route function returns, and the generator is resumed into finally
HandlerReturns(r) ==
    /\ generators[r].pc = "yielded"
    /\ generators' = [generators EXCEPT ![r].pc = "finally"]
    /\ UNCHANGED <<now, hash_seed, doctor_reports, handler,
                   active_connections, stale_connections>>

\* the route function raises: the exception is thrown into the generator at
\* the yield, finally runs and the exception goes on
HandlerRaises(r) ==
    /\ generators[r].pc = "yielded"
    /\ generators' = [generators EXCEPT ![r].pc = "finally", ![r].exc = "handler"]
    /\ UNCHANGED <<now, hash_seed, doctor_reports, handler,
                   active_connections, stale_connections>>

\* lines 29-34: db.close(), then the entry is deleted if it is there
Close(r) ==
    /\ generators[r].pc = "finally"
    /\ generators' = [generators EXCEPT ![r].pc = "ended", ![r].db = "closed"]
    /\ active_connections' =
          IF generators[r].connection_id \in DOMAIN active_connections
          THEN DictDel(active_connections, generators[r].connection_id)
          ELSE active_connections
    /\ UNCHANGED <<now, hash_seed, doctor_reports, handler, stale_connections>>

\* lines 35-40: db.close() raises, the error is logged and the entry is
\* deleted anyway
CloseFault(r) ==
    /\ generators[r].pc = "finally"
    /\ generators' = [generators EXCEPT ![r].pc = "ended"]
    /\ active_connections' =
          IF generators[r].connection_id \in DOMAIN active_connections
          THEN DictDel(active_connections, generators[r].connection_id)
          ELSE active_connections
    /\ UNCHANGED <<now, hash_seed, doctor_reports, handler, stale_connections>>

\* check_stale_connections(max_age_seconds) reads the entries and logs the
\* ones older than max_age_seconds; it removes nothing
check_stale_connections(max_age_seconds) ==
    {<<conn_id, active_connections[conn_id], now - active_connections[conn_id].timestamp>> :
        conn_id \in {c \in DOMAIN active_connections :
                        now - active_connections[c].timestamp > max_age_seconds}}

CheckStaleConnections ==
    /\ \E max_age_seconds \in {0, 300} :
          stale_connections' = check_stale_connections(max_age_seconds)
    /\ UNCHANGED <<now, hash_seed, doctor_reports, handler,
                   active_connections, generators>>

GetDbNext ==
    \/ \E r \in Handlers : Track(r) /\ UNCHANGED <<simVars, anVars>>
    \/ \E r \in Handlers : CreateSession(r) /\ UNCHANGED <<simVars, anVars>>
    \/ \E r \in Handlers : CreateSessionFault(r) /\ UNCHANGED <<simVars, anVars>>
    \/ \E r \in Handlers : HandlerReturns(r) /\ UNCHANGED <<simVars, anVars>>
    \/ \E r \in Handlers : HandlerRaises(r) /\ UNCHANGED <<simVars, anVars>>
    \/ \E r \in Handlers : Close(r) /\ UNCHANGED <<simVars, anVars>>
    \/ \E r \in Handlers : CloseFault(r) /\ UNCHANGED <<simVars, anVars>>
    \/ CheckStaleConnections /\ UNCHANGED <<simVars, anVars>>
    \/ Tick /\ UNCHANGED <<simVars, anVars>>

SpecGetDbInit == GetDbInit /\ SimIdle /\ AnIdle

SpecGetDb == SpecGetDbInit /\ [][GetDbNext]_vars

(***************************************************************************)
(* Claims                                                                  *)
(***************************************************************************)
SelProvidersList == Providers(scraped_data).v

\* the taxonomy descriptions of a candidate, as character sequences
DescsOf(provider) ==
    IF "taxonomies" \in DOMAIN provider.v
    THEN {provider.v.taxonomies.v[j].v.desc.v : j \in 1..Len(provider.v.taxonomies.v)}
    ELSE {}

\* C2: the selector returns the first candidate, in list order, whose combined
\* score 0.7*nameScore + 0.3*specialtyScore is maximal among all candidates,
\* provided that score is strictly above 0.5; it returns none when there is no
\* candidate or none scores strictly above 0.5.
C2_FirstMaximalAboveThreshold ==
    an_pc = "selected" =>
        LET n == Len(SelProvidersList)
            admitted == {i \in 1..n : RatGT(scores[i].combined_score, Threshold)}
        IN /\ \A i \in 1..n :
                scores[i].combined_score[1] * 10 * scores[i].name_score[2]
                  = (7 * scores[i].name_score[1]
                       + 3 * scores[i].specialty_score * scores[i].name_score[2])
                    * scores[i].combined_score[2]
           /\ (admitted = {} => best_provider = None)
           /\ (admitted # {} =>
                 \E i \in admitted :
                    /\ best_provider = SelProvidersList[i]
                    /\ \A j \in 1..n :
                          ~RatGT(scores[j].combined_score, scores[i].combined_score)
                    /\ \A j \in 1..(i - 1) :
                          RatGT(scores[i].combined_score, scores[j].combined_score))

\* C2 witness: two different candidates tie on the maximal score, above 0.5,
\* and the selector returned the first of them.
C2_Witness ==
    /\ an_pc = "selected"
    /\ Len(SelProvidersList) = 2
    /\ SelProvidersList[1] # SelProvidersList[2]
    /\ RatEq(scores[1].combined_score,
             scores[2].combined_score[1], scores[2].combined_score[2])
    /\ RatGT(scores[1].combined_score, Threshold)
    /\ best_provider = SelProvidersList[1]

\* C3 as stated: with a non-empty claimed specialty, a candidate's
\* specialtyScore is 1.0 exactly when, case-insensitively, the claimed
\* specialty is a substring of some taxonomy description of the candidate or
\* some taxonomy description is a substring of the claimed specialty.
C3_EitherDirection ==
    an_pc = "selected" /\ Truthy(request.specialty) =>
        \A i \in 1..Len(SelProvidersList) :
            IsDict(SelProvidersList[i]) =>
                (scores[i].specialty_score = 1 <=>
                    \E d \in DescsOf(SelProvidersList[i]) :
                        \/ Contains(Lower(d), Lower(request.specialty.v))
                        \/ Contains(Lower(request.specialty.v), Lower(d)))

\* C3 amended: with a claimed specialty that is non-empty after trimming, a
\* candidate's specialtyScore is 1.0 exactly when, case-insensitively, the
\* claimed specialty is a substring of some non-empty taxonomy description of
\* the candidate; it is 0.0 otherwise, also when a description is only a
\* substring of the claimed specialty, and for a blank claimed specialty.
C3_ClaimedInDescription ==
    an_pc = "selected" =>
        \A i \in 1..Len(SelProvidersList) :
            IsDict(SelProvidersList[i]) =>
                /\ scores[i].specialty_score \in {0, 1}
                /\ scores[i].specialty_score = 1 <=>
                      /\ Truthy(request.specialty)
                      /\ \E k \in 1..Len(request.specialty.v) :
                            request.specialty.v[k] \notin Whitespace
                      /\ \E d \in DescsOf(SelProvidersList[i]) :
                            d # <<>> /\ Contains(Lower(d), Lower(request.specialty.v))

\* C3 witness: the claimed specialty "Plastic Surgery" scores 0.0 against a
\* candidate described only as "Surgery" and 1.0 against one described as
\* "plastic surgery".
C3_Witness ==
    /\ an_pc = "selected"
    /\ request.specialty = Str(S_PlasticSurgery)
    /\ Len(SelProvidersList) = 2
    /\ IsDict(SelProvidersList[1]) /\ IsDict(SelProvidersList[2])
    /\ DescsOf(SelProvidersList[1]) = {S_Surgery}
    /\ scores[1].specialty_score = 0
    /\ S_plasticSurgery \in DescsOf(SelProvidersList[2])
    /\ scores[2].specialty_score = 1

\* C10 as stated: similarity(a, a) = 1.0 for every non-empty a, whitespace-only
\* strings included, and similarity(a, "") = 0.0, for both primitives.
C10_SelfSimilarityOne ==
    sim_fn \in {"name", "address"} =>
        /\ (name1 = name2 /\ name1.v # <<>> => RatEq(sim_ret, 1, 1))
        /\ (name2.v = <<>> => RatEq(sim_ret, 0, 1))

\* C10 amended: calculate_name_similarity(a, a) is 1.0 for every a holding at
\* least one non-whitespace character and 0.0 for every other a (empty or
\* whitespace only); calculate_address_similarity(a, a) is 1.0 for every a
\* holding at least one character that is neither whitespace nor a comma and
\* 0.0 for every other a; both give 0.0 for (a, "").
C10_SelfSimilarityOfTokens ==
    /\ sim_fn = "name" /\ name1 = name2 =>
          IF \E k \in 1..Len(name1.v) : name1.v[k] \notin Whitespace
          THEN RatEq(sim_ret, 1, 1) ELSE RatEq(sim_ret, 0, 1)
    /\ sim_fn = "address" /\ name1 = name2 =>
          IF \E k \in 1..Len(name1.v) : name1.v[k] \notin Whitespace \cup {","}
          THEN RatEq(sim_ret, 1, 1) ELSE RatEq(sim_ret, 0, 1)
    /\ sim_fn \in {"name", "address"} /\ name2.v = <<>> => RatEq(sim_ret, 0, 1)

\* C10 witness: a whitespace-only string compared with itself gave 0.0.
C10_Witness ==
    /\ sim_fn = "name"
    /\ name1 = Str(<<" ", " ">>)
    /\ name2 = name1
    /\ RatEq(sim_ret, 0, 1)

\* the analysis ran: through analyze_verification or by direct verifier calls
Analyzed == an_pc \in {"analyzed", "verified"}

\* an outcome with no observed value, no provenance and matches = unknown
NothingObserved(outcome) ==
    /\ outcome.scraped_data_field_a = None
    /\ outcome.scraped_from = None
    /\ outcome.matches = None

\* C1: for each of the seven field outcomes, matches is unknown (None) if and
\* only if the outcome's input value or its observed value is absent; when
\* both are present matches is true or false.
C1_UnknownIffAbsent ==
    Analyzed =>
        \A f \in FieldNames :
            verification_result[f].matches = None
              <=> \/ verification_result[f].input_field_a = None
                  \/ verification_result[f].scraped_data_field_a = None

\* C7: when the selector returns none and the bag carries no loose name,
\* specialty, address, phone, services or practice locations, every one of the
\* seven outcomes has no observed value, no provenance and matches = unknown;
\* the license and insurance outcomes have this shape whenever the best match
\* is none, whatever else the bag contains.
C7_NoCandidateNothingObserved ==
    Analyzed /\ best_provider = None =>
        /\ NothingObserved(verification_result.licenseNumber)
        /\ NothingObserved(verification_result.insuranceNetworks)
        /\ (\A k \in {"name", "specialty", "address", "phone_number",
                      "services_offered", "practice_locations"} :
               ~Truthy(Get(scraped_data, k, None)))
             => \A f \in FieldNames : NothingObserved(verification_result[f])

\* C7 witness: candidates exist but none is admitted, the bag has no loose
\* evidence, every optional value is claimed, and nothing was observed.
C7_Witness ==
    /\ an_pc = "analyzed"
    /\ best_provider = None
    /\ Len(Providers(scraped_data).v) = 2
    /\ DOMAIN scraped_data.v = {"npi_data"}
    /\ request.fullName = Str(S_JohnASmith)
    /\ request.licenseNumber = Str(S_ab1234)
    /\ \A f \in FieldNames :
          /\ verification_result[f].input_field_a # None
          /\ NothingObserved(verification_result[f])

\* C8 as stated: for claimed "John A. Smith" and observed "John Smith" the
\* token-set similarity is at least 0.8 and verify_full_name yields true.
C8_JohnSmithMatches ==
    /\ Analyzed
    /\ verification_result.fullName.input_field_a = Str(S_JohnASmith)
    /\ verification_result.fullName.scraped_data_field_a = Str(S_JohnSmith)
    => /\ RatGE(calculate_name_similarity(Str(S_JohnASmith), Str(S_JohnSmith)), 8, 10)
       /\ verification_result.fullName.matches = Bool(TRUE)

\* C8 amended: for claimed "John A. Smith" and observed "John Smith" the
\* token-set similarity is 2/3, below 0.8, and verify_full_name yields
\* matches = false.
C8_JohnSmithTwoThirds ==
    /\ Analyzed
    /\ verification_result.fullName.input_field_a = Str(S_JohnASmith)
    /\ verification_result.fullName.scraped_data_field_a = Str(S_JohnSmith)
    => /\ RatEq(calculate_name_similarity(Str(S_JohnASmith), Str(S_JohnSmith)), 2, 3)
       /\ verification_result.fullName.matches = Bool(FALSE)

\* C8 witness: verify_full_name compared claimed "John A. Smith" with the
\* registry name "John Smith" of the selected candidate.
C8_Witness ==
    /\ an_pc = "analyzed"
    /\ verification_result.fullName.input_field_a = Str(S_JohnASmith)
    /\ verification_result.fullName.scraped_data_field_a = Str(S_JohnSmith)
    /\ verification_result.fullName.scraped_from = NPIRegistry
    /\ verification_result.fullName.matches = Bool(FALSE)

\* C9 as stated: for claimed "100 Main St, Springfield, IL" and observed
\* "100 Main Street, Springfield, IL 62701" the address similarity is at least
\* 0.6 and verify_address yields true.
C9_MainStreetMatches ==
    /\ Analyzed
    /\ verification_result.address.input_field_a = Str(S_Addr100MainSt)
    /\ verification_result.address.scraped_data_field_a = Str(S_Addr100MainStreetFull)
    => /\ RatGE(calculate_address_similarity(Str(S_Addr100MainSt),
                                             Str(S_Addr100MainStreetFull)), 6, 10)
       /\ verification_result.address.matches = Bool(TRUE)

\* C9 amended: for claimed "100 Main St, Springfield, IL" and observed
\* "100 Main Street, Springfield, IL 62701" the address similarity is 4/7,
\* below 0.6, and verify_address yields matches = false.
C9_MainStreetFourSevenths ==
    /\ Analyzed
    /\ verification_result.address.input_field_a = Str(S_Addr100MainSt)
    /\ verification_result.address.scraped_data_field_a = Str(S_Addr100MainStreetFull)
    => /\ RatEq(calculate_address_similarity(Str(S_Addr100MainSt),
                                             Str(S_Addr100MainStreetFull)), 4, 7)
       /\ verification_result.address.matches = Bool(FALSE)

\* C9 witness: verify_address compared the claimed address with the formatted
\* registry address "100 Main Street, Springfield, IL 62701".
C9_Witness ==
    /\ Analyzed
    /\ verification_result.address.input_field_a = Str(S_Addr100MainSt)
    /\ verification_result.address.scraped_data_field_a = Str(S_Addr100MainStreetFull)
    /\ verification_result.address.scraped_from = NPIRegistry
    /\ verification_result.address.matches = Bool(FALSE)

\* the rows handler h's commit put in the table
RowsOf(h) == {row \in doctor_reports : row.report_id = h}

\* C4: for any interleaving of verification requests, no two stored reports
\* ever share a verification_id, and a commit whose verification_id is already
\* stored leaves the table as it was and ends in a failure response.
C4_NoDuplicateVerificationId ==
    /\ [](\A r1, r2 \in doctor_reports :
             r1.verification_id = r2.verification_id => r1 = r2)
    /\ [][\A h \in Handlers :
             /\ handler[h].pc = "added"
             /\ handler'[h].pc # "added"
             /\ \E stored \in doctor_reports :
                   stored.verification_id = handler[h].verification_id
             => /\ doctor_reports' = doctor_reports
                /\ handler'[h].pc = "done"
                /\ handler'[h].response.status_code = 500]_vars

\* C4 witness: two requests for the same name derived the same identifier in
\* the same second; one is stored and answered, the other was refused.
C4_Witness ==
    \E h1, h2 \in Handlers :
       /\ h1 # h2
       /\ handler[h1].pc = "done" /\ handler[h2].pc = "done"
       /\ handler[h1].request.fullName = handler[h2].request.fullName
       /\ handler[h1].verification_id = handler[h2].verification_id
       /\ handler[h1].response.status_code = 200
       /\ handler[h2].e = IntegrityError
       /\ handler[h2].response.status_code = 500
       /\ Cardinality(doctor_reports) = 1
       /\ RowsOf(h2) = {}

\* a response that tells the caller the record was not saved
NotSavedIndicated(response) ==
    \/ response.status_code # 200
    \/ "saved_to_database" \in DOMAIN response /\ response.saved_to_database = FALSE

\* C5: when reconciliation succeeded but add/commit/refresh failed, the
\* response still carries the seven field outcomes of the reconciliation,
\* together with an indication that the record was not saved.
C5_OutcomesKeptOnWriteFailure ==
    \A h \in DOMAIN handler :
       handler[h].pc = "done" /\ handler[h].e # None
       => /\ \A f \in FieldNames :
                /\ f \in DOMAIN handler[h].response
                /\ handler[h].response[f] = handler[h].verification_result[f]
          /\ NotSavedIndicated(handler[h].response)

\* C6: every verify_doctor request ends either in a success response with
\* exactly one new stored report whose verification_id and 28 outcome fields
\* equal those of the response, or in a failure response with the set of
\* stored reports unchanged.
C6_SuccessStoredOrFailureUnchanged ==
    \A h \in DOMAIN handler :
       handler[h].pc = "done"
       => \/ /\ handler[h].response.status_code = 200
             /\ RowsOf(h) = {[report_id |-> h] @@
                               DoctorReport(handler[h].response.verification_id,
                                            handler[h].response)}
          \/ /\ handler[h].response.status_code = 500
             /\ RowsOf(h) = {}

\* the claimed value the verifier at an_pc was called with
ClaimedOf(fn) ==
    CASE fn = "verify_full_name" -> request.fullName
      [] fn = "verify_specialty" -> request.specialty
      [] fn = "verify_phone_number" -> request.phoneNumber

\* C11: for evidence of any shape each verifier returns an outcome, and what
\* it read from malformed evidence is treated as not found: the observed value
\* it reports is never a value of the wrong type, and an observed value is
\* never paired with a match left uncomputed although a value was claimed.
C11_MalformedIsNotFound ==
    an_pc \in {"verify_full_name", "verify_specialty", "verify_phone_number"} =>
        /\ verification_result.scraped_data_field_a # None
              => IsStr(verification_result.scraped_data_field_a)
        /\ HasInput(ClaimedOf(an_pc)) /\ verification_result.scraped_data_field_a # None
              => verification_result.matches # None

\* a full name with at least two whitespace-separated tokens after trimming
TwoTokens(v) == IsStr(v) /\ SplitLen(Strip(v.v)) >= 2

\* a phone number that is absent or made of digits, '-', '(', ')', ' ', '+'
PhoneCharsOnly(v) ==
    \/ IsNone(v)
    \/ IsStr(v) /\ \A i \in 1..Len(v.v) : v.v[i] \in Digits \cup {"-", "(", ")", " ", "+"}

\* C12: an identity that reached the search, the reconciliation or the
\* reports table, through the verify endpoint or the PDF endpoint, has a full
\* name of at least two tokens and a phone number that is absent or made of
\* digits and - ( ) space +; a request violating either is answered with a
\* rejection, nothing gathered, nothing reconciled and nothing stored.
C12_OnlyValidIdentitiesAreVerified ==
    /\ (scraped_data # None \/ verification_result # None \/ doctor_reports # {})
          => TwoTokens(request.fullName) /\ PhoneCharsOnly(request.phoneNumber)
    /\ /\ handler.pc = "done"
       /\ ~(TwoTokens(handler.payload.fullName) /\ PhoneCharsOnly(handler.payload.phoneNumber))
       => /\ handler.status_code \in {400, 422, 500}
          /\ handler.detail # {}
          /\ scraped_data = None
          /\ verification_result = None
          /\ doctor_reports = {}

\* a PDF whose name and specialty pass validate_pdf_content and whose phone
\* number has letters is rejected when the request is built
C12_Witness ==
    /\ handler.pc = "done"
    /\ handler.endpoint = "pdf"
    /\ validate_pdf_content(handler.payload) = {}
    /\ handler.payload.phoneNumber = Str(S_PhoneExt)
    /\ handler.detail = {"phoneNumber"}
    /\ scraped_data = None

BaselineKeys ==
    {"name", "specialty", "address", "phone_number", "license_number",
     "affiliated_insurance_networks", "services_offered", "npi_data",
     "practice_locations", "credentials", "scraped_sources"}

\* C13: whatever the registry, the directories and the places lookups do
\* (raise, time out, answer with a status other than 200, answer with
\* nothing), search_doctor_info does not raise and returns an evidence bag
\* with every baseline key.
C13_SearchReturnsBag ==
    an_pc = "searched" =>
        /\ ~IsRaised(scraped_data)
        /\ IsDict(scraped_data)
        /\ BaselineKeys \subseteq DOMAIN scraped_data.v

\* every lookup failed: two raised, the third answered 403
C13_Witness ==
    /\ an_pc = "searched"
    /\ handler.npi = Timeout
    /\ handler.healthgrades = Timeout
    /\ handler.webmd = ConnectionError
    /\ Truthy(handler.api_key)
    /\ handler.places = Response(403, None)
    /\ IsDict(scraped_data)

\* a search result that holds at least one non-empty value
Contributed(data) == IsDict(data) /\ \E k \in DOMAIN data.v : Truthy(data.v[k])

\* the labels in the bag's scraped_sources
ScrapedSources == {scraped_data.v.scraped_sources.v[i] :
                      i \in 1..Len(scraped_data.v.scraped_sources.v)}

\* C14: scraped_sources names a source (NPI Registry, Provider Directories,
\* Google Places, Medical Board) if and only if that source's search
\* contributed at least one non-empty value to the bag in this call.
C14_LabelIffContributed ==
    an_pc = "searched" =>
        /\ NPIRegistry \in ScrapedSources <=> Contributed(NpiRegistryLookup(handler.npi))
        /\ ProviderDirectories \in ScrapedSources
              <=> Contributed(ProviderDirectoriesLookup(handler.healthgrades, handler.webmd,
                                                        request.specialty))
        /\ GooglePlaces \in ScrapedSources
              <=> Contributed(GooglePlacesLookup(handler.api_key, handler.places))
        /\ MedicalBoard \in ScrapedSources <=> Contributed(search_medical_board)

\* the claimed specialty matches a taxonomy description: substring in either
\* direction, case-insensitive, or a listed synonym
DescMatches(tax, specialty) ==
    /\ HasInput(specialty)
    /\ LicenseSpecialtyMatch(Strip(Lower(tax.v.desc.v)), Strip(Lower(specialty.v)))

\* the taxonomy supplies a license: one that is not empty after trimming
SuppliesLicense(tax) == IsStr(tax.v.license) /\ Strip(tax.v.license.v) # <<>>

\* the taxonomy's license is neither "--" nor, in any letter case, "N/A"
NotPlaceholder(tax) ==
    /\ SuppliesLicense(tax)
    /\ Strip(tax.v.license.v) # S_DashDash
    /\ Upper(Strip(tax.v.license.v)) # S_NA

\* the observed license under a precedence of three rules over the taxonomies
LicenseByPrecedence(taxonomies, First(_), Second(_), Third(_)) ==
    LET s1 == FirstIndex(taxonomies, First)
        s2 == FirstIndex(taxonomies, Second)
        s3 == FirstIndex(taxonomies, Third)
        s == IF s1 > 0 THEN s1 ELSE IF s2 > 0 THEN s2 ELSE s3
    IN IF s > 0 THEN Str(Strip(taxonomies[s].v.license.v)) ELSE None

C16_LicenseMatchIgnoresCase ==
    /\ an_pc = "verify_license_number"
    /\ HasInput(request.licenseNumber)
    /\ verification_result.scraped_data_field_a # None
    => verification_result.matches =
          Bool(Strip(Lower(request.licenseNumber.v))
                 = Strip(Lower(verification_result.scraped_data_field_a.v)))

\* claimed " ab1234" against observed "AB1234"
C16_Witness ==
    /\ an_pc = "verify_license_number"
    /\ request.licenseNumber = Str(S_ab1234Padded)
    /\ verification_result.scraped_data_field_a = Str(S_AB1234)
    /\ verification_result.matches = Bool(TRUE)

\* the keyword rules in their order: the field read, how its case is folded,
\* the keyword, the canonical network
NetworkRules ==
    <<[field |-> "desc", keyword |-> S_MEDICAID, network |-> Atom("Medicaid")],
      [field |-> "desc", keyword |-> S_MEDICARE, network |-> Atom("Medicare")],
      [field |-> "issuer", keyword |-> S_blueShield, network |-> Atom("Blue Cross Blue Shield")],
      [field |-> "issuer", keyword |-> S_blueCross, network |-> Atom("Blue Cross Blue Shield")],
      [field |-> "issuer", keyword |-> S_aetna, network |-> Atom("Aetna")],
      [field |-> "issuer", keyword |-> S_cigna, network |-> Atom("Cigna")],
      [field |-> "issuer", keyword |-> S_humana, network |-> Atom("Humana")],
      [field |-> "issuer", keyword |-> S_united, network |-> Atom("UnitedHealthcare")]>>

RuleApplies(rule, identifier) ==
    IF rule.field = "desc"
    THEN Contains(Upper(identifier.v.desc.v), rule.keyword)
    ELSE Contains(Lower(identifier.v.issuer.v), rule.keyword)

\* the networks the rules give for a list of identifiers: the first rule
\* that applies to an entry decides, an entry no rule applies to gives nothing
CanonicalNetworks(identifiers) ==
    {NetworkRules[r].network : r \in
        {q \in 1..Len(NetworkRules) :
            \E i \in 1..Len(identifiers) :
               /\ RuleApplies(NetworkRules[q], identifiers[i])
               /\ \A p \in 1..(q - 1) : ~RuleApplies(NetworkRules[p], identifiers[i])}}

\* the observed networks of the outcome, as a sequence
ObservedNetworks ==
    IF IsNone(verification_result.scraped_data_field_a) THEN <<>>
    ELSE verification_result.scraped_data_field_a.v

\* C17: the observed value is exactly the set of canonical networks the
\* keyword rules give for the candidate's payer identifiers, each once:
\* MEDICAID in the description, else MEDICARE in the description, else the
\* issuer's keyword; an entry matching no rule contributes nothing.
C17_ObservedIsCanonicalSet ==
    an_pc = "verify_insurance_networks" =>
        /\ {ObservedNetworks[i] : i \in 1..Len(ObservedNetworks)}
              = CanonicalNetworks(best_provider.v.identifiers.v)
        /\ Len(ObservedNetworks) = Cardinality(CanonicalNetworks(best_provider.v.identifiers.v))

\* two entries give the same network, a description naming both programmes
\* gives Medicaid whatever the issuer
C17_Witness ==
    /\ an_pc = "verify_insurance_networks"
    /\ Len(best_provider.v.identifiers.v) = 2
    /\ best_provider.v.identifiers.v[1] =
          Dict([desc |-> Str(S_MedicareMedicaid), issuer |-> Str(S_CignaHealth)])
    /\ best_provider.v.identifiers.v[2] =
          Dict([desc |-> Str(S_StateMedicaid), issuer |-> Str(<<>>)])
    /\ ObservedNetworks = <<Atom("Medicaid")>>

\* C18: with a non-empty claimed set and a non-empty observed set, matches is
\* true if and only if the two sets share an element ({Aetna, Cigna} against
\* {Humana} gives false, against {Cigna} gives true).
C18_MatchIffSharedNetwork ==
    /\ an_pc = "verify_insurance_networks"
    /\ Truthy(request.insuranceNetworks)
    /\ ObservedNetworks # <<>>
    => verification_result.matches =
          Bool(\E i \in 1..Len(request.insuranceNetworks.v), j \in 1..Len(ObservedNetworks) :
                  request.insuranceNetworks.v[i] = ObservedNetworks[j])

\* claimed {Aetna, Cigna}, observed Cigna and Humana: one shared, one not
C18_Witness ==
    /\ an_pc = "verify_insurance_networks"
    /\ request.insuranceNetworks = List(<<Atom("Aetna"), Atom("Cigna")>>)
    /\ ObservedNetworks \in {<<Atom("Cigna"), Atom("Humana")>>, <<Atom("Humana"), Atom("Cigna")>>}
    /\ verification_result.matches = Bool(TRUE)

\* the candidate's entries that format to a non-empty address
FormattedEntries ==
    SelectSeq(AllAddresses(best_provider), LAMBDA addr : Strip(FormatAddress(addr)) # <<>>)

\* C19: an observed address with provenance NPI Registry was formatted from
\* an entry of the best-match candidate whose purpose is "LOCATION"; an entry
\* with another purpose (a mailing address) is never the observed address.
C19_RegistryAddressIsLocation ==
    /\ an_pc = "verify_address"
    /\ verification_result.scraped_from = NPIRegistry
    => \E i \in 1..Len(FormattedEntries) :
          /\ Get(FormattedEntries[i], "address_purpose", None) = Str(S_LOCATION)
          /\ verification_result.scraped_data_field_a = Str(FormatAddress(FormattedEntries[i]))

\* the similarity of the i-th formatted entry to the claimed address
EntrySimilarity(i) ==
    calculate_address_similarity(request.address, Str(FormatAddress(FormattedEntries[i])))

\* C20: when the best-match candidate has an entry that formats to a
\* non-empty address, a Registry address is reported and the loose address or
\* practice location never is: with a claimed address the first entry of
\* highest similarity (also when every similarity is 0), with no claimed
\* address the first entry.
C20_RegistryAddressNeverSkipped ==
    /\ an_pc = "verify_address"
    /\ Len(FormattedEntries) > 0
    => /\ verification_result.scraped_from = NPIRegistry
       /\ \E i \in 1..Len(FormattedEntries) :
             /\ verification_result.scraped_data_field_a = Str(FormatAddress(FormattedEntries[i]))
             /\ IF HasInput(request.address)
                THEN /\ \A j \in 1..Len(FormattedEntries) :
                           ~RatGT(EntrySimilarity(j), EntrySimilarity(i))
                     /\ \A j \in 1..(i - 1) : RatGT(EntrySimilarity(i), EntrySimilarity(j))
                ELSE i = 1

\* the phones of a list of entries, in order, empty ones left out
PhonesOf(entries, key) ==
    LET phones == [i \in 1..Len(entries) |-> Get(entries[i], key, None)]
    IN SelectSeq(phones, Truthy)

\* what each source has to offer, in the fixed order of consultation:
\* Registry (addresses, then practice locations), Places, Directories
PhoneSources ==
    LET registry == IF IsDict(best_provider)
                    THEN PhonesOf(Get(best_provider, "addresses", EmptyList).v
                                  \o Get(best_provider, "practiceLocations", EmptyList).v,
                                  "telephone_number")
                    ELSE <<>>
        places == SelectSeq(<<Get(scraped_data, "phone_number", None)>>, Truthy)
        directories == PhonesOf(Get(scraped_data, "practice_locations", EmptyList).v, "phone")
    IN <<Found(registry, NPIRegistry), Found(places, GooglePlaces),
         Found(directories, ProviderDirectories)>>

\* C21: verify_phone_number reports the first non-empty phone of the first
\* source that has one, in the order Registry entries, loose top-level phone
\* (Places), loose practice locations (Directories), labelled with that
\* source; it reports nothing only when no source has a phone.
C21_FirstPhoneInSourceOrder ==
    an_pc = "verify_phone_number"
    => IF \A k \in 1..3 : PhoneSources[k].value = <<>>
       THEN /\ verification_result.scraped_data_field_a = None
            /\ verification_result.scraped_from = None
       ELSE \E k \in 1..3 :
               /\ \A j \in 1..(k - 1) : PhoneSources[j].value = <<>>
               /\ PhoneSources[k].value # <<>>
               /\ verification_result.scraped_data_field_a = Head(PhoneSources[k].value)
               /\ verification_result.scraped_from = PhoneSources[k].source

\* the candidate has entries but none with a phone, the loose top-level phone
\* is empty, and the second loose practice location supplies the phone
C21_Witness ==
    /\ an_pc = "verify_phone_number"
    /\ IsDict(best_provider)
    /\ Len(best_provider.v.addresses.v) > 0
    /\ Get(scraped_data, "phone_number", None) = EmptyStr
    /\ Len(PhoneSources[3].value) = 1
    /\ verification_result.scraped_from = ProviderDirectories
    /\ verification_result.scraped_data_field_a = Str(S_Phone312)

\* the whole words of a text, lower-cased
LowerWords(text) == {Lower(word) : word \in Words(text)}

\* C22: with claimed services text and a non-empty observed services list,
\* matches is true if and only if some observed service is, ignoring case,
\* contained in the claimed text or shares with it a whole word longer than
\* two letters; a word of a service that occurs only inside a longer word of
\* the claimed text does not make a match.
C22_ServicesMatchOnWholeWords ==
    /\ an_pc = "verify_services_offered"
    /\ HasInput(request.servicesOffered)
    /\ Truthy(Get(scraped_data, "services_offered", EmptyList))
    => LET claimed == request.servicesOffered.v
           observed == Get(scraped_data, "services_offered", EmptyList).v
       IN verification_result.matches =
             Bool(\E i \in 1..Len(observed) :
                     \/ Contains(Lower(claimed), Lower(observed[i].v))
                     \/ \E word \in LowerWords(observed[i].v) \cap LowerWords(claimed) :
                           Len(word) > 2)

\* a filter value is a case-insensitive part of the claimed or of the
\* observed value; no filter is asked when the value is absent or blank
PartialMatch(value, input, scraped) ==
    Truthy(value) /\ Strip(value.v) # <<>>
    => \E column \in {input, scraped} :
          /\ ~IsNone(column)
          /\ Contains(Lower(column.v), Lower(Strip(value.v)))

\* the stored reports that pass the name and specialty filters of the query
FilteredReports(q) ==
    {row \in doctor_reports :
        /\ PartialMatch(q.full_name, row.full_name_input, row.full_name_scraped)
        /\ PartialMatch(q.specialty, row.specialty_input, row.specialty_scraped)}

\* sorted is in the requested order: no later row sorts before an earlier one
InRequestedOrder(sorted, q) ==
    \A i, j \in 1..Len(sorted) :
       i < j => IF q.sort_order = Str(S_ascend)
                THEN ~SortsBefore(q.sort_field, sorted[j], sorted[i])
                ELSE ~SortsBefore(q.sort_field, sorted[i], sorted[j])

\* C23: for skip >= 0 and 1 <= limit <= 100, get_reports answers with the
\* records at positions skip .. skip+limit-1 of the stored reports that pass
\* the name and specialty filters (case-insensitive partial match on the
\* claimed or observed value) in the requested order; the page holds at most
\* limit records, total_count counts the filtered reports, has_next is
\* skip+limit < total_count and has_previous is skip > 0.
C23_PageOfFilteredReports ==
    /\ handler.operation = "get_reports"
    /\ handler.asked.skip >= 0
    /\ handler.asked.limit >= 1
    /\ handler.asked.limit <= 100
    => LET q == handler.asked
           page == handler.response
           filtered == FilteredReports(q)
       IN /\ page.status_code = 200
          /\ page.total_count = Cardinality(filtered)
          /\ Len(page.reports) <= q.limit
          /\ \E sorted \in Orderings(filtered) :
                /\ InRequestedOrder(sorted, q)
                /\ page.reports = [i \in 1..Len(page.reports) |-> sorted[q.skip + i]]
                /\ Len(page.reports) = IF q.skip + q.limit <= Len(sorted) THEN q.limit
                                       ELSE IF q.skip <= Len(sorted) THEN Len(sorted) - q.skip
                                       ELSE 0
          /\ page.has_next = (q.skip + q.limit < page.total_count)
          /\ page.has_previous = (q.skip > 0)

\* C24: no operation of the API updates or deletes a stored report: every
\* row of doctor_reports is in the table after the operation, with all of
\* its fields as they were.
C24_ReportsOnlyGrow == [][doctor_reports \subseteq doctor_reports']_vars

\* after the clock advanced, a second commit of a verification_id stored
\* in the same second was refused, and the table still holds the stored row
C24_Witness ==
    /\ now > 0
    /\ handler.operation \in {"verify_doctor", "extract_provider_from_pdf"}
    /\ ~handler.response.stored
    /\ \E row \in doctor_reports :
          row.verification_id = handler.response.verification_id

\* the candidate records the registry lookup put into the bag under npi_data
RegistryCandidates ==
    LET npi_data == Get(scraped_data, "npi_data", EmptyDict)
    IN Get(npi_data, "providers", EmptyList).v

\* C25: in the verify flow, when the registry lookup returned a candidate
\* whose name equals the claimed name, get_best_matching_provider returns a
\* candidate and not none, and the fullName outcome carries provenance
\* NPI Registry.
C25_RegistryCandidatesAreScored ==
    /\ an_pc = "analyzed"
    /\ \E i \in 1..Len(RegistryCandidates) :
          Get(RegistryCandidates[i], "name", None) = request.fullName
    => /\ best_provider # None
       /\ verification_result.fullName.scraped_from = NPIRegistry

\* the flow of verify_doctor from the claimed identity and the sources'
\* replies to the outcomes
Outcomes(req, replies) ==
    analyze_verification(req, ScrapeDoctorInfo(req.fullName, req.specialty, replies))

\* no external source returned anything
NothingReturned ==
    /\ NpiRegistryLookup(handler.npi) = EmptyDict
    /\ HealthgradesLookup(handler.healthgrades, request.specialty) = EmptyDict
    /\ WebmdLookup(handler.webmd, request.specialty) = EmptyDict
    /\ GooglePlacesLookup(handler.api_key, handler.places) = search_google_places(None)

\* C26: the observed fullName and specialty come only from the external
\* sources: a request that differs only in the claimed name and meets the
\* same replies of every source gets the same observed name, and when no
\* source returned anything both outcomes have no observed value and
\* matches unknown.
C26_ObservedNotFromClaim ==
    an_pc = "analyzed"
    => /\ \A fullName \in {Str(S_JohnSmith), Str(S_JohnASmith)} :
             \A twin \in Outcomes([request EXCEPT !.fullName = fullName], handler) :
                twin.fullName.scraped_data_field_a
                   = verification_result.fullName.scraped_data_field_a
       /\ NothingReturned
          => /\ verification_result.fullName.scraped_data_field_a = None
             /\ verification_result.fullName.matches = None
             /\ verification_result.specialty.scraped_data_field_a = None
             /\ verification_result.specialty.matches = None

\* what the provider directories found, before the later sources are merged
DirectoriesFound ==
    ProviderDirectoriesLookup(handler.healthgrades, handler.webmd, request.specialty)

\* C27: merging a later source into the bag never replaces a non-empty
\* value by an empty one: an address, phone number or services list that the
\* provider directories found is in the returned bag when the places lookup
\* and the medical board found nothing for that field.
C27_MergeKeepsFoundValues ==
    /\ an_pc = "searched"
    /\ ~Truthy(GooglePlacesLookup(handler.api_key, handler.places).v.address)
    /\ ~Truthy(GooglePlacesLookup(handler.api_key, handler.places).v.phone_number)
    => \A field \in {"address", "phone_number", "services_offered"} :
          Truthy(DirectoriesFound.v[field])
          => scraped_data.v[field] = DirectoriesFound.v[field]

\* C28: the observed license reported by verify_license_number is never
\* empty and never a placeholder ("--", or "N/A" in any letter case),
\* whichever strategy supplied it.
C28_ObservedLicenseNotPlaceholder ==
    /\ an_pc = "verify_license_number"
    /\ verification_result.scraped_data_field_a # None
    => LET observed == verification_result.scraped_data_field_a.v
       IN /\ Strip(observed) # <<>>
          /\ observed # S_DashDash
          /\ Upper(observed) # S_NA

\* the report of the PDF request in the table
PdfReportStored ==
    \E row \in doctor_reports :
       row.verification_id = PdfVerificationId(now, request.fullName)

\* C29: the response of extract_provider_from_pdf has saved_to_database true
\* and a report_id if and only if a report of this request was stored; when
\* the write failed and was rolled back it has saved_to_database false,
\* report_id none and has_verification false.
C29_SavedFlagTellsStored ==
    /\ handler.endpoint = "pdf"
    /\ handler.pc = "done"
    /\ handler.status_code = 200
    /\ an_pc = "analyzed"
    => IF PdfReportStored
       THEN /\ handler.saved_to_database = TRUE
            /\ handler.report_id # None
       ELSE /\ handler.saved_to_database = FALSE
            /\ handler.report_id = None
            /\ handler.has_verification = FALSE

InFlight == {r \in Handlers : generators[r].pc \in {"tracked", "yielded", "finally"}}

\* C30: in every interleaving of requests through get_db, a request that has
\* ended, by a normal return, an exception in the handler, a failure to
\* create the session or a failure to close it, has its session closed and
\* no entry in active_connections; active_connections holds exactly the
\* connections of the requests in flight, and two requests in flight never
\* have the same connection id.
C30_TrackedExactlyWhileInFlight ==
    /\ \A r \in Handlers :
          generators[r].pc = "ended"
          => /\ generators[r].db # "open"
             /\ generators[r].connection_id \notin DOMAIN active_connections
    /\ DOMAIN active_connections = {generators[r].connection_id : r \in InFlight}
    /\ \A r1, r2 \in InFlight :
          r1 # r2 => generators[r1].connection_id # generators[r2].connection_id

====
